---- MODULE Spec2Model ----
(***************************************************************************)
(* Model of the per-job processor of jjs-dev/judge: processor::judge and   *)
(* do_judge (src/processor/src/lib.rs), the ProtocolSender, the event and  *)
(* completion channels of JobProgress, the compiler driver's result        *)
(* classification (src/processor/src/compile.rs), the test executor's      *)
(* result handling (src/processor/src/exec_test.rs) and the log            *)
(* transformer (src/processor/src/transform_judge_log.rs).                 *)
(*                                                                         *)
(* The processor task and the consumer of the JobProgress handle are two   *)
(* processes.  Every await of the processor at which another process can   *)
(* observe or block it is a separate action; the synchronous code between  *)
(* two awaits is part of one action.                                       *)
(***************************************************************************)
EXTENDS Integers, Sequences, FiniteSets, TLC

\* Number of valuer messages other than Finish the valuer sends in one job;
\* after that many it sends Finish or stops answering.
MaxPolls == 2

\* mpsc::channel(1) in judge
ChannelCapacity == 1

\* limits.time is in milliseconds, cpu_time in nanoseconds
NsPerMs == 1000000

\* Option<T>: None is the empty sequence, Some(v) the one-element sequence
None == <<>>
Some(v) == <<v>>
IsSome(o) == o # None
Unwrap(o) == o[1]

----------------------------------------------------------------------------
(* Statuses (valuer_api::Status as used by the processor)                  *)

Status(kind, code) == [kind |-> kind, code |-> code]

JudgeFaultStatus == Status("InternalError", "JUDGE_FAULT")

\* JudgeLogKind::list(), in the order send_fake_logs iterates it
KindList == <<"Contestant", "Full">>

Kinds == {KindList[i] : i \in 1..Len(KindList)}

SeqToSet(s) == {s[i] : i \in 1..Len(s)}

----------------------------------------------------------------------------
(* The inputs of one job: the problem manifest and the toolchain           *)

\* pom::Problem.tests: test 1 has a reference answer, test 2 has none
ProblemTests ==
  << [path |-> "t1", correct |-> Some("a1"), group |-> "g1"],
     [path |-> "t2", correct |-> None, group |-> "g2"] >>

NumTests == Len(ProblemTests)

\* Test ids a valuer may name: the ids of the manifest and one id beyond it
ValuerTestIds == 1..(NumTests + 1)

\* toolchain.spec.build_commands, by name
BuildCommands == <<"cc", "ld">>

\* toolchain.spec.limits as given to the compile sandbox
ToolchainLimits == [time |-> 1, memory |-> 2]

----------------------------------------------------------------------------
(* Command-result classifier                                               *)

CommandResult(spawn_error, cpu_time, memory, exit_code) ==
  [spawn_error |-> spawn_error, cpu_time |-> cpu_time,
   memory |-> memory, exit_code |-> exit_code]

\* The build profile: with overflow checks (debug) an arithmetic overflow
\* panics, without them (release) the result wraps around.
VARIABLE overflow_checks

\* A u64 is modelled by its eight bytes, least significant first.
\* u64::to_le_bytes of a number small enough to be written in the model
to_le_bytes(n) ==
  LET RECURSIVE Bytes(_, _)
      Bytes(m, k) == IF k = 0 THEN <<>> ELSE <<m % 256>> \o Bytes(m \div 256, k - 1)
  IN Bytes(n, 8)

\* the exact product of two numbers given by their bytes, Len(a) + Len(b) bytes
mul_exact(a, b) ==
  LET RECURSIVE Column(_, _)
      \* the sum of a[i] * b[k + 1 - i] over the i from 1 to upto
      Column(k, upto) ==
        IF upto = 0 THEN 0
        ELSE (IF k + 1 - upto \in 1..Len(b) THEN a[upto] * b[k + 1 - upto] ELSE 0)
             + Column(k, upto - 1)
      RECURSIVE Carry(_, _)
      Carry(k, c) ==
        IF k > Len(a) + Len(b) THEN <<>>
        ELSE LET t == Column(k, Len(a)) + c
             IN <<t % 256>> \o Carry(k + 1, t \div 256)
  IN Carry(1, 0)

\* a * b on u64: the low eight bytes of the product, and whether the rest is
\* lost
mul_u64(a, b) ==
  LET product == mul_exact(a, b)
  IN [value |-> SubSeq(product, 1, 8),
      overflow |-> \E k \in 9..Len(product) : product[k] # 0]

\* a > b for numbers given by the same number of bytes
gt_bytes(a, b) ==
  LET RECURSIVE From(_)
      From(k) == IF k = 0 THEN FALSE
                 ELSE IF a[k] # b[k] THEN a[k] > b[k]
                 ELSE From(k - 1)
  IN From(Len(a))

\* lines 278-282: usage > limits.time * 1_000_000 on u64; "panic" when the
\* multiplication overflows in a build with overflow checks
time_limit_exceeded(usage, time) ==
  LET product == mul_u64(time, to_le_bytes(NsPerMs))
  IN IF product.overflow /\ overflow_checks THEN "panic"
     ELSE IF gt_bytes(usage, product.value) THEN "yes"
     ELSE "no"

\* the classifier with usage equal to the limit counted as a violation
describe_command_result_inclusive(limits, data) ==
  IF data.spawn_error THEN "Startup"
  ELSE IF IsSome(data.cpu_time) /\ Unwrap(data.cpu_time) >= limits.time * NsPerMs
    THEN "TimeLimit"
  ELSE IF IsSome(data.memory) /\ Unwrap(data.memory) >= limits.memory
    THEN "MemLimit"
  ELSE IF data.exit_code # 0 THEN "Runtime"
  ELSE "Ok"

describe_command_result(limits, data) ==
  LET time_test == IF IsSome(data.cpu_time)
                   THEN time_limit_exceeded(to_le_bytes(Unwrap(data.cpu_time)),
                                            to_le_bytes(limits.time))
                   ELSE "no"
  IN
  IF data.spawn_error THEN "Startup"
  ELSE IF time_test = "panic" THEN "Panic"
  ELSE IF time_test = "yes"
    THEN "TimeLimit"
  ELSE IF IsSome(data.memory) /\ Unwrap(data.memory) > limits.memory
    THEN "MemLimit"
  ELSE IF data.exit_code # 0 THEN "Runtime"
  ELSE "Ok"

----------------------------------------------------------------------------
(* Compiler driver: what compile() does with the invoker's response.       *)
(* A response is [actions: one CommandResult per build command,            *)
(* outputs: the names of the outputs present, stdout/stderr: per step].    *)

\* lines 216-220: what one classified step appends to the compile log
StepSegment(step_no, stdout, stderr) ==
  "------ step " \o ToString(step_no) \o " ------\n"
    \o "--- stdout ---\n" \o stdout \o "--- stderr ---\n" \o stderr

RECURSIVE CompileLoop(_, _, _)
\* the loop of lines 204-237 from step index i (0-based) with the log so far;
\* the result is an anyhow error (err) or a BuildOutcome: ok for Ok(BuiltRun),
\* otherwise Err(status)
CompileLoop(response, i, log) ==
  IF i >= Len(BuildCommands)
  THEN IF <<"artifact", 0>> \in response.outputs
       THEN [err |-> FALSE, ok |-> TRUE, status |-> None, log |-> log]
       ELSE [err |-> TRUE, ok |-> FALSE, status |-> None, log |-> log]
  ELSE IF ~(<<"stdout", i>> \in response.outputs /\ <<"stderr", i>> \in response.outputs)
  THEN [err |-> TRUE, ok |-> FALSE, status |-> None, log |-> log]
  ELSE LET data == response.actions[i + 1]
           log2 == log \o StepSegment(i, response.stdout[i + 1], response.stderr[i + 1])
           st == describe_command_result(ToolchainLimits, data)
       IN IF st = "Ok" THEN CompileLoop(response, i + 1, log2)
          ELSE [err |-> FALSE, ok |-> FALSE,
                status |-> Some(Status("CompilationError",
                                       IF st = "TimeLimit" THEN "COMPILATION_TIMED_OUT"
                                       ELSE "COMPILER_FAILED")),
                log |-> log2]

\* compile() reading the artifact before it classifies the steps
compile_artifact_first(call_ok, response) ==
  IF ~call_ok \/ <<"artifact", 0>> \notin response.outputs
  THEN [err |-> TRUE, ok |-> FALSE, status |-> None, log |-> ""]
  ELSE CompileLoop(response, 0, "")

\* compile(): the call to the invoker fails, or the response is classified
compile(call_ok, response) ==
  IF ~call_ok THEN [err |-> TRUE, ok |-> FALSE, status |-> None, log |-> ""]
  ELSE CompileLoop(response, 0, "")

CmdOk == CommandResult(FALSE, Some(NsPerMs), Some(1), 0)
CmdRuntime == CommandResult(FALSE, Some(5), Some(1), 1)
CmdTle == CommandResult(FALSE, Some(NsPerMs + 1), Some(1), 0)

AllCompileOutputs ==
  {<<"artifact", 0>>} \cup {<<"stdout", i>> : i \in 0..(Len(BuildCommands) - 1)}
               \cup {<<"stderr", i>> : i \in 0..(Len(BuildCommands) - 1)}

\* The invoker responses to the compile invocation a job is run against
JobCompileResponses ==
  { [actions |-> a, outputs |-> o,
     stdout |-> [i \in 1..Len(BuildCommands) |-> "out"],
     stderr |-> [i \in 1..Len(BuildCommands) |-> ""]] :
      a \in [1..Len(BuildCommands) -> {CmdOk, CmdRuntime, CmdTle}],
      o \in {AllCompileOutputs, AllCompileOutputs \ {<<"artifact", 0>>}} }

----------------------------------------------------------------------------
(* Bytes and strings.  A byte string is a sequence of 0..255; a String is  *)
(* the sequence of the bytes of its UTF-8 encoding.                        *)

\* String::from_utf8_lossy on byte strings made of ASCII bytes and of bytes
\* 0xF8..0xFF (which occur in no UTF-8 encoding): each of the latter becomes
\* U+FFFD, that is EF BF BD
RECURSIVE from_utf8_lossy(_)
from_utf8_lossy(bytes) ==
  IF bytes = <<>> THEN <<>>
  ELSE (IF Head(bytes) < 128 THEN <<Head(bytes)>> ELSE <<239, 191, 189>>)
         \o from_utf8_lossy(Tail(bytes))

\* base64::encode: the standard alphabet as indices 0..63, 64 for the pad '='
RECURSIVE base64_encode(_)
base64_encode(bytes) ==
  IF Len(bytes) = 0 THEN <<>>
  ELSE IF Len(bytes) = 1
  THEN LET n == bytes[1] * 65536
       IN <<n \div 262144, (n \div 4096) % 64, 64, 64>>
  ELSE IF Len(bytes) = 2
  THEN LET n == bytes[1] * 65536 + bytes[2] * 256
       IN <<n \div 262144, (n \div 4096) % 64, (n \div 64) % 64, 64>>
  ELSE LET n == bytes[1] * 65536 + bytes[2] * 256 + bytes[3]
       IN <<n \div 262144, (n \div 4096) % 64, (n \div 64) % 64, n % 64>>
            \o base64_encode(SubSeq(bytes, 4, Len(bytes)))

\* The contents of the problem's files
FileData(path) ==
  CASE path = "t1" -> <<49>>
    [] path = "t2" -> <<50, 10>>
    [] path = "a1" -> <<65>>
    [] OTHER -> <<>>

----------------------------------------------------------------------------
(* Test executor: the invocation create_request builds for a test.         *)
(* readable is the set of problem files intern_file can read; the request  *)
(* is [res, inputs: the declared inputs, checker_env: the environment of   *)
(* the checker command, outputs: the names of the output requests].        *)

CheckerExe == "checker"

\* lines 307-328: the environment every checker command gets
BaseCheckerEnv ==
  << [name |-> "JJS_SOL", file |-> "solution-output"],
     [name |-> "JJS_TEST", file |-> "test-data"],
     [name |-> "JJS_CHECKER_OUT", file |-> "checker-decision"],
     [name |-> "JJS_CHECKER_COMMENT", file |-> "checker-logs"] >>

NoRequest == [res |-> "err", inputs |-> <<>>, checker_env |-> <<>>, outputs |-> <<>>]

\* create_request declaring the reference answer for every test
create_request_always_corr(test, readable) ==
  IF ~({test.path, CheckerExe} \subseteq readable) THEN NoRequest
  ELSE [res |-> "ok",
        inputs |-> << [file_id |-> "test-data", source |-> FileData(test.path)],
                      [file_id |-> "correct", source |-> <<>>] >>,
        checker_env |-> Append(BaseCheckerEnv, [name |-> "JJS_CORR", file |-> "correct"]),
        outputs |-> <<"checker-logs", "checker-decision", "solution-output",
                      "solution-error">>]

create_request(test, readable) ==
  IF ~({test.path, CheckerExe} \subseteq readable) THEN NoRequest
  ELSE IF IsSome(test.correct) /\ Unwrap(test.correct) \notin readable THEN NoRequest
  ELSE LET has_correct_answer == IsSome(test.correct) IN
    [res |-> "ok",
     inputs |-> << [file_id |-> "test-data", source |-> FileData(test.path)] >>
                  \o (IF has_correct_answer
                      THEN << [file_id |-> "correct",
                               source |-> FileData(Unwrap(test.correct))] >>
                      ELSE <<>>),
     checker_env |-> BaseCheckerEnv
                       \o (IF has_correct_answer
                           THEN << [name |-> "JJS_CORR", file |-> "correct"] >>
                           ELSE <<>>),
     outputs |-> <<"checker-logs", "checker-decision", "solution-output",
                   "solution-error">>]

----------------------------------------------------------------------------
(* Test executor: what exec() does with the invoker's response             *)

\* the names of the outputs exec reads
AllExecOutputsNames == {"solution-output", "solution-error", "checker-decision"}

map_checker_outcome_to_status(outcome) ==
  CASE outcome = "Ok" -> Status("Accepted", "TEST_PASSED")
    [] outcome = "BadChecker" -> Status("InternalError", "JUDGE_FAULT")
    [] outcome = "PresentationError" -> Status("Rejected", "PRESENTATION_ERROR")
    [] outcome = "WrongAnswer" -> Status("Rejected", "WRONG_ANSWER")

ExecOutcome(status, memory, time, stdout, stderr) ==
  [status |-> status, resource_usage |-> [memory |-> memory, time |-> time],
   stdout |-> stdout, stderr |-> stderr]

make_return_value_for_judge_fault ==
  ExecOutcome(JudgeFaultStatus, None, None, <<>>, <<>>)

\* exec classifying the solution's command before it asks the checker
ExecResultClassifiesSolution(response) ==
  IF ~(AllExecOutputsNames \subseteq response.outputs) THEN None
  ELSE IF describe_command_result(ToolchainLimits, response.solution) # "Ok"
  THEN Some(ExecOutcome(Status("Rejected", "RUNTIME_ERROR"),
                        response.solution.memory, response.solution.cpu_time,
                        from_utf8_lossy(response.stdout),
                        from_utf8_lossy(response.stderr)))
  ELSE IF response.checker_exit # 0 \/ response.decision = "invalid"
  THEN Some(make_return_value_for_judge_fault)
  ELSE Some(ExecOutcome(map_checker_outcome_to_status(response.decision),
                        response.solution.memory, response.solution.cpu_time,
                        from_utf8_lossy(response.stdout),
                        from_utf8_lossy(response.stderr)))

\* exec with a failed checker treated as an error of the executor
ExecResultCheckerFailureFatal(response) ==
  IF ~({"solution-output", "solution-error", "checker-decision"} \subseteq response.outputs)
     \/ response.checker_exit # 0
  THEN None
  ELSE IF response.decision = "invalid"
  THEN Some(make_return_value_for_judge_fault)
  ELSE Some(ExecOutcome(map_checker_outcome_to_status(response.decision),
                        response.solution.memory, response.solution.cpu_time,
                        from_utf8_lossy(response.stdout),
                        from_utf8_lossy(response.stderr)))

\* lines 417-508 with checker_logs unset: the response carries the solution's
\* CommandResult, the checker's exit code, the checker's decision ("invalid"
\* when it is not UTF-8 or does not parse) and the names of the outputs present.
\* The result is None for an anyhow error and Some(ExecOutcome) otherwise.
ExecResult(response) ==
  IF ~({"solution-output", "solution-error"} \subseteq response.outputs)
  THEN None
  ELSE IF response.checker_exit # 0
  THEN Some(make_return_value_for_judge_fault)
  ELSE IF ~("checker-decision" \in response.outputs)
  THEN None
  ELSE IF response.decision = "invalid"
  THEN Some(make_return_value_for_judge_fault)
  ELSE Some(ExecOutcome(map_checker_outcome_to_status(response.decision),
                        response.solution.memory, response.solution.cpu_time,
                        from_utf8_lossy(response.stdout),
                        from_utf8_lossy(response.stderr)))

AllExecOutputs == AllExecOutputsNames

\* The invoker responses to a test invocation a job is run against: the
\* checker accepts, the checker exits non-zero, an output is missing
JobExecResponses ==
  { [solution |-> CmdOk, checker_exit |-> 0, decision |-> "Ok",
     outputs |-> AllExecOutputs, stdout |-> <<52, 50>>, stderr |-> <<>>],
    [solution |-> CmdOk, checker_exit |-> 1, decision |-> "Ok",
     outputs |-> AllExecOutputs, stdout |-> <<52, 50>>, stderr |-> <<>>],
    [solution |-> CmdOk, checker_exit |-> 0, decision |-> "Ok",
     outputs |-> AllExecOutputs \ {"solution-output"}, stdout |-> <<>>, stderr |-> <<>>] }

----------------------------------------------------------------------------
(* Log transformer                                                         *)

\* judge_log::JudgeLogTestRow
JudgeLogTestRow(test_id, status, stdin, stdout, stderr, answer, time, memory) ==
  [test_id |-> test_id, status |-> status, test_stdin |-> stdin,
   test_stdout |-> stdout, test_stderr |-> stderr, test_answer |-> answer,
   time_usage |-> time, memory_usage |-> memory]

\* test_results.iter().find(|(tid, _)| *tid == item.test_id): the first match
RECURSIVE FindOutcome(_, _)
FindOutcome(test_results, tid) ==
  IF test_results = <<>> THEN None
  ELSE IF Head(test_results)[1] = tid THEN Some(Head(test_results)[2])
  ELSE FindOutcome(Tail(test_results), tid)

\* resource_usage_by_test.get(tid): the map is filled in order, so a later
\* result of the same test replaces an earlier one
RECURSIVE resource_usage_by_test(_, _)
resource_usage_by_test(test_results, tid) ==
  IF test_results = <<>> THEN None
  ELSE IF test_results[Len(test_results)][1] = tid
  THEN Some(test_results[Len(test_results)][2].resource_usage)
  ELSE resource_usage_by_test(SubSeq(test_results, 1, Len(test_results) - 1), tid)

\* export_test without the tests of item.components: every field it has a
\* value for is shown
export_test_ignores_visibility(item, exec_outcome, test_results, reads_ok) ==
  LET bare == JudgeLogTestRow(item.test_id, Some(item.status), None, None, None,
                              None, None, None)
  IN IF ~IsSome(exec_outcome) \/ ~(item.test_id \in 1..NumTests)
     THEN [res |-> "ok", row |-> bare]
     ELSE LET eo == Unwrap(exec_outcome) IN
       [res |-> "ok",
        row |-> JudgeLogTestRow(
          item.test_id, Some(item.status),
          Some(base64_encode(FileData(ProblemTests[item.test_id].path))),
          Some(base64_encode(eo.stdout)), Some(base64_encode(eo.stderr)),
          None, eo.resource_usage.time, eo.resource_usage.memory)]

\* export_test going on to the payload fields of a test that was not run
export_test_without_outcome(item, exec_outcome, test_results, reads_ok) ==
  LET st == IF "STATUS" \in item.components THEN Some(item.status) ELSE None
      bare == JudgeLogTestRow(item.test_id, st, None, None, None, None, None, None)
  IN IF item.test_id \notin 1..NumTests THEN [res |-> "ok", row |-> bare]
     ELSE IF "TEST_DATA" \in item.components /\ ~reads_ok THEN [res |-> "err", row |-> bare]
     ELSE [res |-> "ok",
           row |-> JudgeLogTestRow(
             item.test_id, st,
             IF "TEST_DATA" \in item.components
               THEN Some(base64_encode(FileData(ProblemTests[item.test_id].path)))
               ELSE None,
             None, None, None, None, None)]

\* export_test for one row of the valuer's log.  reads_ok: whether the reads of
\* the problem's files succeed.  The result is [res: "ok" | "err" | "panic", row];
\* "panic" is problem.tests[item.test_id] out of range
export_test(item, exec_outcome, test_results, reads_ok) ==
  LET st == IF "STATUS" \in item.components THEN Some(item.status) ELSE None
      bare == JudgeLogTestRow(item.test_id, st, None, None, None, None, None, None)
      in_range == item.test_id \in 1..NumTests
      reads_test == "TEST_DATA" \in item.components
      reads_answer == "ANSWER" \in item.components
  IN IF ~IsSome(exec_outcome) THEN [res |-> "ok", row |-> bare]
     ELSE IF reads_test /\ ~in_range THEN [res |-> "panic", row |-> bare]
     ELSE IF reads_test /\ ~reads_ok THEN [res |-> "err", row |-> bare]
     ELSE IF reads_answer /\ ~in_range THEN [res |-> "panic", row |-> bare]
     ELSE IF reads_answer /\ IsSome(ProblemTests[item.test_id].correct) /\ ~reads_ok
     THEN [res |-> "err", row |-> bare]
     ELSE
       LET eo == Unwrap(exec_outcome)
           ru == resource_usage_by_test(test_results, item.test_id)
           shows_usage == IsSome(ru) /\ "RESOURCE_USAGE" \in item.components
       IN [res |-> "ok",
           row |-> JudgeLogTestRow(
             item.test_id, st,
             IF reads_test
               THEN Some(base64_encode(FileData(ProblemTests[item.test_id].path)))
               ELSE None,
             IF "OUTPUT" \in item.components THEN Some(base64_encode(eo.stdout)) ELSE None,
             IF "OUTPUT" \in item.components THEN Some(base64_encode(eo.stderr)) ELSE None,
             IF reads_answer /\ IsSome(ProblemTests[item.test_id].correct)
               THEN Some(base64_encode(FileData(Unwrap(ProblemTests[item.test_id].correct))))
               ELSE None,
             IF shows_usage THEN Unwrap(ru).time ELSE None,
             IF shows_usage THEN Unwrap(ru).memory ELSE None)]

\* Vec::sort_by_key on the field named key: a stable sort, here by insertion
RECURSIVE InsertByKey(_, _, _)
InsertByKey(sorted, x, key) ==
  IF sorted = <<>> THEN <<x>>
  ELSE IF sorted[Len(sorted)][key] <= x[key] THEN Append(sorted, x)
  ELSE Append(InsertByKey(SubSeq(sorted, 1, Len(sorted) - 1), x, key),
              sorted[Len(sorted)])

\* the rows left in the order they were pushed
sort_by_key_skipped(s, key) == s

RECURSIVE sort_by_key(_, _)
sort_by_key(s, key) ==
  IF s = <<>> THEN <<>>
  ELSE InsertByKey(sort_by_key(SubSeq(s, 1, Len(s) - 1), key), s[Len(s)], key)

\* the loop of lines 39-53 over the rows from index i: the rows exported so far,
\* or the first failure
RECURSIVE ExportTests(_, _, _, _, _)
ExportTests(rows, i, acc, test_results, reads_ok) ==
  IF i > Len(rows) THEN [res |-> "ok", tests |-> acc]
  ELSE LET r == export_test(rows[i], FindOutcome(test_results, rows[i].test_id),
                            test_results, reads_ok)
       IN IF r.res # "ok" THEN [res |-> r.res, tests |-> acc]
          ELSE ExportTests(rows, i + 1, Append(acc, r.row), test_results, reads_ok)

\* judge_log::JudgeLog
JudgeLog(kind, tests, subtasks, compile_log, score, is_full, status) ==
  [kind |-> kind, tests |-> tests, subtasks |-> subtasks,
   compile_log |-> compile_log, score |-> score, is_full |-> is_full,
   status |-> status]

\* transform: [res: "ok" | "err" | "panic", log]
transform(valuer_log, compile_log, test_results, reads_ok) ==
  LET status == IF valuer_log.is_full THEN Status("Accepted", "ACCEPTED")
                ELSE Status("Rejected", "PARTIAL_SOLUTION")
      exported == ExportTests(valuer_log.tests, 1, <<>>, test_results, reads_ok)
      subtasks == [i \in 1..Len(valuer_log.subtasks) |->
                     [subtask_id |-> valuer_log.subtasks[i].subtask_id,
                      score |-> Some(valuer_log.subtasks[i].score)]]
  IN [res |-> exported.res,
      log |-> JudgeLog(valuer_log.kind, sort_by_key(exported.tests, "test_id"),
                       sort_by_key(subtasks, "subtask_id"), compile_log,
                       valuer_log.score, FALSE, status)]

\* a fake log that claims the full score
FakeLogFullScore(kind, status, compile_log) ==
  JudgeLog(kind, <<>>, <<>>, compile_log, 100, FALSE, status)

\* send_fake_logs, lines 322-330: the fake log of one kind
FakeLog(kind, status, compile_log) ==
  JudgeLog(kind, <<>>, <<>>, compile_log, 0, FALSE, status)

----------------------------------------------------------------------------
(* The valuer's messages a job is run against                              *)

ValuerRow(test_id, components, status) ==
  [test_id |-> test_id, components |-> components, status |-> status]

ValuerLog(kind, tests) ==
  [kind |-> kind, is_full |-> TRUE, score |-> 100, tests |-> tests, subtasks |-> <<>>]

JobValuerLogs ==
  { ValuerLog(k, t) :
      k \in Kinds,
      t \in { <<>>,
              <<ValuerRow(1, {"STATUS", "TEST_DATA"}, Status("Accepted", "TEST_PASSED"))>>,
              <<ValuerRow(NumTests + 1, {"STATUS", "TEST_DATA", "ANSWER"},
                          Status("Accepted", "TEST_PASSED"))>> } }

JobLiveScores == {50}

----------------------------------------------------------------------------
(* State                                                                   *)

VARIABLES
  pc,            \* where the processor task is
  res,           \* the result of do_judge: "none", "Ok" or "Err"
  sent,          \* ProtocolSender.sent
  fake,          \* the running send_fake_logs: next index, status, compile log, caller
  pending,       \* the event of the tx.send the processor is in
  ret,           \* where the processor continues after that send
  compile_res,   \* the BuildOutcome returned by compile (see CompileLoop)
  valuer,        \* the valuer child: "none", "running", "killed"
  polls,         \* valuer messages other than Finish received so far
  curTest,       \* the Test message being handled
  curLog,        \* the JudgeLog message being handled
  test_results,  \* do_judge's test_results: <<tid, ExecOutcome>> pairs
  inflight,      \* test invocations sent and not yet returned
  chan,          \* the events buffered in the mpsc channel
  txOpen,        \* some Sender of the event channel is alive
  done,          \* the one-shot channel: "pending", "Ok", "Err", "closed"
  rx,            \* the JobProgress handle: "held", "waiting" (in wait()), "dropped"
  received,      \* the events event() has returned
  waitResult,    \* what wait() returned: "none", "Success", "Fault"
  waitError,     \* the error of the Fault wait() returned
  error,         \* the error do_judge returned: its context chain, outermost first
  emitted,       \* history: the events whose tx.send has completed
  posted,        \* history: the invocations POSTed to the invoker, with their ids
  trace          \* history: the processor's operations on its collaborators

vars == <<pc, res, sent, fake, pending, ret, compile_res, valuer, polls, curTest,
          curLog, test_results, inflight, chan, txOpen, done, rx, received,
          waitResult, waitError, error, emitted, posted, trace>>

----------------------------------------------------------------------------
(* Problem loader: state.  Tasks call Loader::find on one Loader.          *)

\* the most calls of find the tasks make in all
MaxFinds == 2

\* the tasks that call find
Lookups == {1, 2}

\* the problem names asked for
ProblemNames == {"a", "b"}

\* Loader.registries in the order from_config pushes them
Registries == <<"fs", "mongodb">>

\* the manifests a registry may hold for a problem
Manifests == {"m1", "m2"}

\* what Registry::get_problem returns: Ok(None), Err(..), Ok(Some(manifest))
RegistryOutcomes == {<<"None">>, <<"Err">>} \cup {<<"Some", m>> : m \in Manifests}

\* self.cache_dir.join(problem_name)
AssetsPath(name) == "cache/" \o name

VARIABLES
  cache,         \* ProblemCache.items: name -> None or Some(ProblemCacheItem)
  lock,          \* the holder of Loader.cache's mutex, 0 when it is free
  lookup,        \* per task: where its find is, the name, the call's number, the registry index
  dirs,          \* per name, the directory cache_dir/name: "absent", "empty", "filled"
  finds,         \* the calls of find made so far
  ltrace         \* history: the steps of the finds, in order

lvars == <<cache, lock, lookup, dirs, finds, ltrace>>

\* The functions of the judge taken one call at a time: the arguments of a
\* call and what it returned
VARIABLES
  input,         \* [fn: the function called, arg: its arguments], NoCall when there is none
  output         \* what the call returned, None until it has

fvars == <<input, output, overflow_checks>>

\* The REST server's record of the job (rest.rs)
VARIABLES
  job,           \* the JudgeJob of the job
  rpc,           \* the task start_job spawned: "events", "wait", "finished"
  resp           \* the rest::JudgeJob start_job or get_job returned last

rvars == <<job, rpc, resp>>

NoCall == [fn |-> "none"]

\* a step of the find numbered fid: "call", "lock", "remove_dir", "create_dir",
\* "get_problem" (reg: the registry's index, result: what the registry
\* returned) or "return" (result: what find returns)
LOp(op, fid, name, reg, result) ==
  [op |-> op, fid |-> fid, name |-> name, reg |-> reg, result |-> result]

IdleLookup == [pc |-> "idle", name |-> "", fid |-> 0, reg |-> 0]

\* Loader::from_config, and a directory left in cache_dir by an earlier run
LoaderInit ==
  /\ cache = [n \in ProblemNames |-> None]
  /\ lock = 0
  /\ lookup = [i \in Lookups |-> IdleLookup]
  /\ dirs = [n \in ProblemNames |-> IF n = "a" THEN "filled" ELSE "absent"]
  /\ finds = 0
  /\ ltrace = <<>>

----------------------------------------------------------------------------
(* Judge job: events, operations, initial state                            *)

Event(type, n, log) == [type |-> type, n |-> n, log |-> log]
NoEvent == Event("none", 0, None)

\* tid is the test id of the operation; for PollJudgeLog it is the position
\* of the log's kind in KindList; otherwise 0
Op(op, tid, status) == [op |-> op, tid |-> tid, status |-> status]

KindIndex(kind) == CHOOSE i \in 1..Len(KindList) : KindList[i] = kind

\* the operations that are a valuer.poll()
PollOps == {"PollTest", "PollTestLive", "PollLiveScore", "PollJudgeLog",
            "PollFinish", "PollError"}

NoTest == [test_id |-> 0, live |-> FALSE]
NoLog == ValuerLog("none", <<>>)
NoBuildOutcome == [err |-> FALSE, ok |-> FALSE, status |-> None, log |-> ""]
\* an error raised below the modelled code (I/O, HTTP, the loaders)
Cause == "cause"

\* what read_line under the 15 s time-out gives when no valuer message comes:
\* the time-out elapses; the read fails; the valuer's output is closed
\* (Ok(0), the line stays empty); a line that is no valuer message
PollReads == {"elapsed", "io_error", "eof", "bad_line"}

\* the error of ChildClient::poll, child.rs lines 74-88, for such a read: the
\* empty line of a closed output is handed to serde_json like any line
poll_error(read) ==
  CASE read = "elapsed" -> <<"valuer response timed out">>
    [] read = "io_error" -> <<"early eof", Cause>>
    [] OTHER -> <<"failed to parse valuer message", Cause>>

\* why valuer.poll() fails
PollErrors == {poll_error(read) : read \in PollReads}

\* problems.find: Ok(Some(..)), Ok(None), Err(..)
FindResults == {"found", "missing", "error"}

NoFake == [idx |-> 0, status |-> JudgeFaultStatus, compile_log |-> "", from |-> "none"]

JobInit ==
  /\ pc = "find_problem"
  /\ res = "none"
  /\ sent = <<>>
  /\ fake = NoFake
  /\ pending = NoEvent
  /\ ret = "none"
  /\ compile_res = NoBuildOutcome
  /\ valuer = "none"
  /\ polls = 0
  /\ curTest = NoTest
  /\ curLog = NoLog
  /\ test_results = <<>>
  /\ inflight = 0
  /\ chan = <<>>
  /\ txOpen = TRUE
  /\ done = "pending"
  /\ rx = "held"
  /\ received = <<>>
  /\ waitResult = "none"
  /\ waitError = <<>>
  /\ error = <<>>
  /\ emitted = <<>>
  /\ posted = <<>>
  /\ trace = <<>>

\* anyhow's {:#} of an error: the messages of its chain joined by ": "
RECURSIVE format_alternate(_)
format_alternate(chain) ==
  IF Len(chain) = 0 THEN ""
  ELSE IF Len(chain) = 1 THEN chain[1]
  ELSE chain[1] \o ": " \o format_alternate(Tail(chain))

Success == [kind |-> "Success", error |-> <<>>]
Fault(err) == [kind |-> "Fault", error |-> err]

\* rest.rs 69-76: the JudgeJob start_job creates (id and annotations left out)
NewJudgeJob ==
  [live_test |-> None, live_score |-> None, logs |-> <<>>, outcome |-> None]

\* as_rest reporting an error for every outcome
as_rest_error_any_outcome(j) ==
  [logs |-> {j.logs[i].kind : i \in 1..Len(j.logs)},
   completed |-> IsSome(j.outcome),
   live |-> [test |-> j.live_test, score |-> j.live_score],
   error |-> IF IsSome(j.outcome) THEN Some(format_alternate(Unwrap(j.outcome).error))
             ELSE None]

\* JudgeJob::as_rest, rest.rs 25-43
as_rest(j) ==
  [logs |-> {j.logs[i].kind : i \in 1..Len(j.logs)},
   completed |-> IsSome(j.outcome),
   live |-> [test |-> j.live_test, score |-> j.live_score],
   error |-> IF IsSome(j.outcome) /\ Unwrap(j.outcome).kind = "Fault"
             THEN Some(format_alternate(Unwrap(j.outcome).error))
             ELSE None]

\* HashMap::insert(log.kind, log) on the logs kept as a sequence of logs with
\* pairwise different kinds
logs_insert(logs, log) ==
  IF \E i \in 1..Len(logs) : logs[i].kind = log.kind
  THEN [i \in 1..Len(logs) |-> IF logs[i].kind = log.kind THEN log ELSE logs[i]]
  ELSE Append(logs, log)

\* start_job has registered the job and returned its first report
RestInit ==
  /\ job = NewJudgeJob
  /\ rpc = "events"
  /\ resp = as_rest(NewJudgeJob)

\* a judge with one job just started, a loader without lookups, no call
Init ==
  /\ JobInit
  /\ LoaderInit
  /\ input = NoCall
  /\ output = None
  /\ overflow_checks \in BOOLEAN
  /\ RestInit

----------------------------------------------------------------------------
(* Invoker client                                                          *)

\* Uuid::nil()
NilUuid == 0

\* the ids Uuid::new_v4() can return: a random id, never nil (version 4).
\* Ids matter up to renaming, so the next unused number stands for a new one.
FreshUuids == {Len(posted) + 1}

\* the id of the request compile builds, compile.rs line 59
CompileRequestId == NilUuid

\* the id of the request create_request builds, exec_test.rs line 121
ExecRequestId == NilUuid

\* a client that sends the request with the id it was given
call_posts_given_id(req_id, fresh) == Some(req_id)

\* Instance::call, lines 82-85: the id of the request that is POSTed, None
\* when the call bails before sending anything
call_posts(req_id, fresh) == IF req_id # NilUuid THEN None ELSE Some(fresh)

----------------------------------------------------------------------------
(* The processor task                                                      *)

\* the valuer client is a local of do_judge: it is dropped, and the child
\* killed (kill_on_drop), when do_judge returns or unwinds
\* a child spawned without kill_on_drop: dropping the client leaves it running
DropValuerDetached == valuer

DropValuer == IF valuer = "running" THEN "killed" ELSE valuer

\* judge without lines 90-101: a failed job reports its outcome and no fake log
EnterFaultWithoutFakeLogs ==
  /\ res' = "Err"
  /\ valuer' = DropValuer
  /\ pc' = "done_send"
  /\ UNCHANGED fake

\* do_judge returned Err: judge, lines 90-100, up to the first await
EnterFault ==
  /\ res' = "Err"
  /\ valuer' = DropValuer
  /\ fake' = [idx |-> 1, status |-> JudgeFaultStatus, compile_log |-> "", from |-> "fault"]
  /\ pc' = "fake_logs"

\* a panic that stops the task without dropping what it holds
PanicKeepsChannels ==
  /\ pc' = "panicked"
  /\ UNCHANGED <<txOpen, done>>
  /\ valuer' = DropValuer

\* a panic of the task: it unwinds, which drops the valuer, both Senders and
\* done_tx without sending
Panic ==
  /\ pc' = "panicked"
  /\ txOpen' = FALSE
  /\ done' = "closed"
  /\ valuer' = DropValuer

\* send_log without its duplicate check, send_fake_logs without its skip
already_sent_unchecked(kind) == FALSE

\* self.sent.contains(&kind), lines 318 and 337
already_sent(kind) == kind \in SeqToSet(sent)

\* send_log up to its tx.send
send_log(log, cont) ==
  IF already_sent(log.kind)
  THEN Panic /\ UNCHANGED <<sent, pending, ret>>
  ELSE /\ sent' = Append(sent, log.kind)
       /\ pending' = Event("LogCreated", 0, Some(log))
       /\ ret' = cont
       /\ pc' = "send"
       /\ UNCHANGED <<txOpen, done, valuer>>

\* do_judge, lines 142-147: clients.problems.find
FindProblem ==
  /\ pc = "find_problem"
  /\ \E r \in FindResults :
       IF r = "found"
       THEN pc' = "resolve_toolchain" /\ UNCHANGED <<res, valuer, fake, error>>
       ELSE /\ EnterFault
            /\ error' = IF r = "missing" THEN <<"problem not found">>
                        ELSE <<"failed to get problem", Cause>>
  /\ UNCHANGED <<waitError, sent, pending, ret, compile_res, polls, curTest, curLog,
                 test_results, inflight, chan, txOpen, done, rx, received,
                 waitResult, emitted, trace>>
  /\ UNCHANGED <<posted, lvars, fvars, rvars>>

\* a toolchain that is not found reported, and the job going on to compile
ResolveToolchainLenient ==
  /\ pc = "resolve_toolchain"
  /\ \E found \in BOOLEAN :
       error' = IF found THEN error ELSE <<"failed to find toolchain", Cause>>
  /\ pc' = "compile"
  /\ UNCHANGED <<res, valuer, fake>>
  /\ UNCHANGED <<waitError, sent, pending, ret, compile_res, polls, curTest, curLog,
                 test_results, inflight, chan, txOpen, done, rx, received,
                 waitResult, emitted, trace>>
  /\ UNCHANGED <<posted, lvars, fvars, rvars>>

\* do_judge, lines 154-158: clients.toolchains.resolve
ResolveToolchain ==
  /\ pc = "resolve_toolchain"
  /\ \E found \in BOOLEAN :
       IF found THEN pc' = "compile" /\ UNCHANGED <<res, valuer, fake, error>>
       ELSE EnterFault /\ error' = <<"failed to find toolchain", Cause>>
  /\ UNCHANGED <<waitError, sent, pending, ret, compile_res, polls, curTest, curLog,
                 test_results, inflight, chan, txOpen, done, rx, received,
                 waitResult, emitted, trace>>
  /\ UNCHANGED <<posted, lvars, fvars, rvars>>

\* the compile-failure exit returning the status as an error instead of
\* reporting it in the logs
CompileFailedAsFault(r) == EnterFault

\* do_judge, lines 164-170: the compile-failure exit, up to the first await
CompileFailed(r) ==
  /\ pc' = "fake_logs"
  /\ fake' = [idx |-> 1, status |-> Unwrap(r.status), compile_log |-> r.log,
              from |-> "compile"]
  /\ UNCHANGED <<res, valuer>>

\* do_judge, lines 161-172: the compiler driver and what follows its result
Compile ==
  /\ pc = "compile"
  /\ \E call_ok \in BOOLEAN, response \in JobCompileResponses, fresh \in FreshUuids :
       LET post == call_posts(CompileRequestId, fresh)
           r == compile(call_ok, response)
       IN IF ~IsSome(post)
          THEN /\ EnterFault
               /\ error' = <<"request id is not nil">>
               /\ UNCHANGED <<compile_res, posted, trace>>
          ELSE /\ posted' = Append(posted, [for |-> "compile", id |-> Unwrap(post)])
               /\ trace' = Append(trace, Op("CompileInvoke", 0, None))
               /\ IF r.err
                  THEN EnterFault /\ error' = <<Cause>> /\ UNCHANGED compile_res
                  ELSE /\ compile_res' = r
                       /\ UNCHANGED error
                       /\ IF r.ok
                          THEN pc' = "spawn_valuer" /\ UNCHANGED <<res, valuer, fake>>
                          ELSE CompileFailed(r)
  /\ UNCHANGED <<waitError, sent, pending, ret, polls, curTest, curLog, test_results,
                 inflight, chan, txOpen, done, rx, received, waitResult, emitted>>
  /\ UNCHANGED <<lvars, fvars, rvars>>

\* one iteration of the loop of send_fake_logs, or its end and what follows it:
\* return Ok(()) of do_judge (line 169) after a compile failure
FakeLogsStep ==
  /\ pc = "fake_logs"
  /\ IF fake.idx > Len(KindList)
     THEN /\ pc' = "done_send"
          /\ res' = IF fake.from = "compile" THEN "Ok" ELSE res
          /\ UNCHANGED <<fake, sent, pending, ret, txOpen, done, valuer>>
     ELSE /\ fake' = [fake EXCEPT !.idx = @ + 1]
          /\ UNCHANGED res
          /\ IF already_sent(KindList[fake.idx])
             THEN UNCHANGED <<pc, sent, pending, ret, txOpen, done, valuer>>
             ELSE send_log(FakeLog(KindList[fake.idx], fake.status, fake.compile_log),
                           "fake_logs")
  /\ UNCHANGED <<waitError, error, compile_res, polls, curTest, curLog, test_results, inflight,
                 chan, rx, received, waitResult, emitted, trace>>
  /\ UNCHANGED <<posted, lvars, fvars, rvars>>

\* tx.send(event).await? : the error of a send to a dropped receiver fails the job
SendDroppedPropagates ==
  /\ rx = "dropped"
  /\ EnterFault
  /\ UNCHANGED chan

\* tx.send(event).await.ok() with the receiver gone: the error is ignored
SendDropped ==
  /\ rx = "dropped"
  /\ pc' = ret
  /\ UNCHANGED <<chan, res, valuer, fake>>

\* tx.try_send(event).ok(): a full channel loses the event instead of blocking
SendBufferedOrLost ==
  /\ rx # "dropped"
  /\ chan' = IF Len(chan) < ChannelCapacity THEN Append(chan, pending) ELSE chan
  /\ pc' = ret
  /\ UNCHANGED <<res, valuer, fake>>

\* tx.send(event).await with the receiver alive: waits for a free slot
SendBuffered ==
  /\ rx # "dropped"
  /\ Len(chan) < ChannelCapacity
  /\ chan' = Append(chan, pending)
  /\ pc' = ret
  /\ UNCHANGED <<res, valuer, fake>>

\* the tx.send of lines 211, 240 and 348
Send ==
  /\ pc = "send"
  /\ (SendDropped \/ SendBuffered)
  /\ emitted' = Append(emitted, pending)
  /\ trace' = Append(trace, Op(pending.type, pending.n, None))
  /\ pending' = NoEvent
  /\ ret' = "none"
  /\ UNCHANGED <<waitError, error, sent, compile_res, polls, curTest, curLog, test_results,
                 inflight, txOpen, done, rx, received, waitResult>>
  /\ UNCHANGED <<posted, lvars, fvars, rvars>>

\* do_judge, lines 193-195: ValuerClient::new
SpawnValuer ==
  /\ pc = "spawn_valuer"
  /\ \E spawned \in BOOLEAN :
       IF spawned
       THEN /\ valuer' = "running"
            /\ pc' = "write_problem_data"
            /\ trace' = Append(trace, Op("Spawn", 0, None))
            /\ UNCHANGED <<res, fake, error>>
       ELSE /\ EnterFault
            /\ error' = <<"failed to initialize valuer", Cause>>
            /\ UNCHANGED trace
  /\ UNCHANGED <<waitError, sent, pending, ret, compile_res, polls, curTest, curLog,
                 test_results, inflight, chan, txOpen, done, rx, received,
                 waitResult, emitted>>
  /\ UNCHANGED <<posted, lvars, fvars, rvars>>

\* do_judge, lines 196-205: write_problem_data
WriteProblemData ==
  /\ pc = "write_problem_data"
  /\ \E written \in BOOLEAN :
       IF written THEN pc' = "poll" /\ UNCHANGED <<res, valuer, fake, error>>
       ELSE EnterFault /\ error' = <<"failed to send problem info to valuer", Cause>>
  /\ trace' = Append(trace, Op("ProblemInfo", 0, None))
  /\ UNCHANGED <<waitError, sent, pending, ret, compile_res, polls, curTest, curLog,
                 test_results, inflight, chan, txOpen, done, rx, received,
                 waitResult, emitted>>
  /\ UNCHANGED <<posted, lvars, fvars, rvars>>

\* a poll that never returns when no message comes
PollErrorHangs ==
  /\ pc = "poll"
  /\ pc' = "hung"
  /\ \E e \in PollErrors : error' = e
  /\ trace' = Append(trace, Op("PollError", 0, None))
  /\ UNCHANGED <<res, valuer, fake>>
  /\ UNCHANGED <<waitError, sent, pending, ret, compile_res, polls, curTest, curLog,
                 test_results, inflight, chan, txOpen, done, rx, received,
                 waitResult, emitted>>
  /\ UNCHANGED <<posted, lvars, fvars, rvars>>

\* a failed poll answered by polling again instead of failing the job
PollErrorRetried ==
  /\ pc = "poll"
  /\ polls < MaxPolls
  /\ polls' = polls + 1
  /\ \E e \in PollErrors : error' = e
  /\ trace' = Append(trace, Op("PollError", 0, None))
  /\ UNCHANGED <<pc, res, valuer, fake, waitError, sent, pending, ret, compile_res,
                 curTest, curLog, test_results, inflight, chan, txOpen, done, rx,
                 received, waitResult, emitted>>
  /\ UNCHANGED <<posted, lvars, fvars, rvars>>

\* valuer.poll() fails: time-out, read error, or a line that does not parse
PollError ==
  /\ pc = "poll"
  /\ EnterFault
  /\ \E e \in PollErrors : error' = e
  /\ trace' = Append(trace, Op("PollError", 0, None))
  /\ UNCHANGED <<waitError, sent, pending, ret, compile_res, polls, curTest, curLog,
                 test_results, inflight, chan, txOpen, done, rx, received,
                 waitResult, emitted>>
  /\ UNCHANGED <<posted, lvars, fvars, rvars>>

\* Test handled without the test of `live`: every test is announced
PollTestAnnouncesAll ==
  /\ pc = "poll"
  /\ polls < MaxPolls
  /\ \E tid \in ValuerTestIds, live \in BOOLEAN :
       /\ curTest' = [test_id |-> tid, live |-> live]
       /\ trace' = Append(trace, Op(IF live THEN "PollTestLive" ELSE "PollTest", tid, None))
       /\ pending' = Event("LiveTest", tid, None)
       /\ ret' = "exec"
       /\ pc' = "send"
  /\ polls' = polls + 1
  /\ UNCHANGED <<waitError, error, res, sent, fake, compile_res, valuer, curLog, test_results,
                 inflight, chan, txOpen, done, rx, received, waitResult, emitted>>
  /\ UNCHANGED <<posted, lvars, fvars, rvars>>

\* valuer.poll() returns Test { test_id, live }: lines 209-212
PollTest ==
  /\ pc = "poll"
  /\ polls < MaxPolls
  /\ \E tid \in ValuerTestIds, live \in BOOLEAN :
       /\ curTest' = [test_id |-> tid, live |-> live]
       /\ trace' = Append(trace, Op(IF live THEN "PollTestLive" ELSE "PollTest", tid, None))
       /\ IF live
          THEN /\ pending' = Event("LiveTest", tid, None)
               /\ ret' = "exec"
               /\ pc' = "send"
          ELSE /\ pc' = "exec"
               /\ UNCHANGED <<pending, ret>>
  /\ polls' = polls + 1
  /\ UNCHANGED <<waitError, error, res, sent, fake, compile_res, valuer, curLog, test_results,
                 inflight, chan, txOpen, done, rx, received, waitResult, emitted>>
  /\ UNCHANGED <<posted, lvars, fvars, rvars>>

\* valuer.poll() returns LiveScore { score }: lines 239-241
PollLiveScore ==
  /\ pc = "poll"
  /\ polls < MaxPolls
  /\ \E score \in JobLiveScores :
       /\ pending' = Event("LiveScore", score, None)
       /\ ret' = "poll"
       /\ pc' = "send"
  /\ polls' = polls + 1
  /\ trace' = Append(trace, Op("PollLiveScore", 0, None))
  /\ UNCHANGED <<waitError, error, res, sent, fake, compile_res, valuer, curTest, curLog,
                 test_results, inflight, chan, txOpen, done, rx, received,
                 waitResult, emitted>>
  /\ UNCHANGED <<posted, lvars, fvars, rvars>>

\* valuer.poll() returns JudgeLog(judge_log): line 242
PollJudgeLog ==
  /\ pc = "poll"
  /\ polls < MaxPolls
  /\ \E judge_log \in JobValuerLogs :
       /\ curLog' = judge_log
       /\ pc' = "transform"
  /\ polls' = polls + 1
  /\ trace' = Append(trace, Op("PollJudgeLog", KindIndex(curLog'.kind), None))
  /\ UNCHANGED <<waitError, error, res, sent, fake, pending, ret, compile_res, valuer, curTest,
                 test_results, inflight, chan, txOpen, done, rx, received,
                 waitResult, emitted>>
  /\ UNCHANGED <<posted, lvars, fvars, rvars>>

\* Finish followed by send_fake_logs for the kinds the valuer did not send
PollFinishFillsKinds ==
  /\ pc = "poll"
  /\ res' = "Ok"
  /\ valuer' = DropValuer
  /\ pc' = "fake_logs"
  /\ fake' = [idx |-> 1, status |-> JudgeFaultStatus, compile_log |-> "",
              from |-> "finish"]
  /\ trace' = Append(trace, Op("PollFinish", 0, None))
  /\ UNCHANGED <<waitError, error, sent, pending, ret, compile_res, polls, curTest,
                 curLog, test_results, inflight, chan, txOpen, done, rx, received,
                 waitResult, emitted>>
  /\ UNCHANGED <<posted, lvars, fvars, rvars>>

\* valuer.poll() returns Finish: lines 236-238 and 258
PollFinish ==
  /\ pc = "poll"
  /\ res' = "Ok"
  /\ valuer' = DropValuer
  /\ pc' = "done_send"
  /\ trace' = Append(trace, Op("PollFinish", 0, None))
  /\ UNCHANGED <<waitError, error, sent, fake, pending, ret, compile_res, polls, curTest, curLog,
                 test_results, inflight, chan, txOpen, done, rx, received,
                 waitResult, emitted>>
  /\ UNCHANGED <<posted, lvars, fvars, rvars>>

\* lines 243-253: transform the valuer's log, then send_log up to its tx.send
Transform ==
  /\ pc = "transform"
  /\ \E reads_ok \in BOOLEAN :
       LET r == transform(curLog, compile_res.log, test_results, reads_ok) IN
         IF r.res = "err"
         THEN /\ EnterFault
              /\ error' = <<"failed to convert valuer judge log to invoker judge log",
                            Cause>>
              /\ UNCHANGED <<sent, pending, ret, txOpen, done>>
         ELSE IF r.res = "panic"
         THEN Panic /\ UNCHANGED <<sent, pending, ret, res, fake, error>>
         ELSE send_log(r.log, "poll") /\ UNCHANGED <<res, fake, error>>
  /\ curLog' = NoLog
  /\ UNCHANGED <<waitError, compile_res, polls, curTest, test_results, inflight, chan, rx,
                 received, waitResult, emitted, trace>>
  /\ UNCHANGED <<posted, lvars, fvars, rvars>>

\* line 224: the context do_judge adds to an error of exec
ExecContext(tid) == "failed to judge solution on test " \o ToString(tid)

\* the test run in a task of its own: the loop polls again without awaiting it
ExecStartDetached ==
  /\ pc = "exec"
  /\ \E prepared \in BOOLEAN, fresh \in FreshUuids :
       LET post == call_posts(ExecRequestId, fresh) IN
       IF curTest.test_id \in 1..NumTests /\ prepared /\ IsSome(post)
       THEN /\ inflight' = inflight + 1
            /\ pc' = "poll"
            /\ posted' = Append(posted, [for |-> "test", id |-> Unwrap(post)])
            /\ trace' = Append(trace, Op("Invoke", curTest.test_id, None))
            /\ UNCHANGED <<res, valuer, fake, error>>
       ELSE /\ EnterFault
            /\ error' = <<ExecContext(curTest.test_id),
                          IF ~(curTest.test_id \in 1..NumTests) THEN "unknown test"
                          ELSE IF ~prepared THEN "failed to prepare invoke request"
                          ELSE "request id is not nil">>
            /\ UNCHANGED <<inflight, posted, trace>>
  /\ UNCHANGED <<waitError, sent, pending, ret, compile_res, polls, curTest, curLog,
                 test_results, chan, txOpen, done, rx, received, waitResult,
                 emitted>>
  /\ UNCHANGED <<lvars, fvars, rvars>>

\* exec without the lookup of the test in the manifest
ExecStartUnchecked ==
  /\ pc = "exec"
  /\ \E prepared \in BOOLEAN, fresh \in FreshUuids :
       LET post == call_posts(ExecRequestId, fresh) IN
       IF prepared /\ IsSome(post)
       THEN /\ inflight' = inflight + 1
            /\ pc' = "exec_wait"
            /\ posted' = Append(posted, [for |-> "test", id |-> Unwrap(post)])
            /\ trace' = Append(trace, Op("Invoke", curTest.test_id, None))
            /\ UNCHANGED <<res, valuer, fake, error>>
       ELSE /\ EnterFault
            /\ error' = <<ExecContext(curTest.test_id), "failed to prepare invoke request">>
            /\ UNCHANGED <<inflight, posted, trace>>
  /\ UNCHANGED <<waitError, sent, pending, ret, compile_res, polls, curTest, curLog,
                 test_results, chan, txOpen, done, rx, received, waitResult,
                 emitted>>
  /\ UNCHANGED <<lvars, fvars, rvars>>

\* exec, lines 397-415: until the invocation is sent
ExecStart ==
  /\ pc = "exec"
  /\ \E prepared \in BOOLEAN, fresh \in FreshUuids :
       LET post == call_posts(ExecRequestId, fresh) IN
       IF curTest.test_id \in 1..NumTests /\ prepared /\ IsSome(post)
       THEN /\ inflight' = inflight + 1
            /\ pc' = "exec_wait"
            /\ posted' = Append(posted, [for |-> "test", id |-> Unwrap(post)])
            /\ trace' = Append(trace, Op("Invoke", curTest.test_id, None))
            /\ UNCHANGED <<res, valuer, fake, error>>
       ELSE /\ EnterFault
            /\ error' = <<ExecContext(curTest.test_id),
                          IF ~(curTest.test_id \in 1..NumTests) THEN "unknown test"
                          ELSE IF ~prepared THEN "failed to prepare invoke request"
                          ELSE "request id is not nil">>
            /\ UNCHANGED <<inflight, posted, trace>>
  /\ UNCHANGED <<waitError, sent, pending, ret, compile_res, polls, curTest, curLog,
                 test_results, chan, txOpen, done, rx, received, waitResult,
                 emitted>>
  /\ UNCHANGED <<lvars, fvars, rvars>>

\* a failed test execution logged and skipped: the loop polls the valuer again
ExecReturnSkipsFailedTest ==
  /\ pc = "exec_wait"
  /\ \E call_ok \in BOOLEAN, response \in JobExecResponses :
       LET r == IF call_ok THEN ExecResult(response) ELSE None IN
         IF IsSome(r)
         THEN /\ test_results' = Append(test_results, <<curTest.test_id, Unwrap(r)>>)
              /\ pc' = "notify"
              /\ trace' = Append(trace, Op("ExecOk", curTest.test_id, Some(Unwrap(r).status)))
              /\ UNCHANGED <<res, valuer, fake, error>>
         ELSE /\ pc' = "poll"
              /\ error' = <<ExecContext(curTest.test_id), Cause>>
              /\ trace' = Append(trace, Op("ExecErr", curTest.test_id, None))
              /\ UNCHANGED <<res, valuer, fake, test_results>>
  /\ inflight' = inflight - 1
  /\ UNCHANGED <<waitError, sent, pending, ret, compile_res, polls, curTest, curLog, chan,
                 txOpen, done, rx, received, waitResult, emitted>>
  /\ UNCHANGED <<posted, lvars, fvars, rvars>>

\* exec, lines 415-508, and line 225: the invocation returns
ExecReturn ==
  /\ pc = "exec_wait"
  /\ \E call_ok \in BOOLEAN, response \in JobExecResponses :
       LET r == IF call_ok THEN ExecResult(response) ELSE None IN
         IF IsSome(r)
         THEN /\ test_results' = Append(test_results, <<curTest.test_id, Unwrap(r)>>)
              /\ pc' = "notify"
              /\ trace' = Append(trace, Op("ExecOk", curTest.test_id, Some(Unwrap(r).status)))
              /\ UNCHANGED <<res, valuer, fake, error>>
         ELSE /\ EnterFault
              /\ error' = <<ExecContext(curTest.test_id), Cause>>
              /\ trace' = Append(trace, Op("ExecErr", curTest.test_id, None))
              /\ UNCHANGED test_results
  /\ inflight' = inflight - 1
  /\ UNCHANGED <<waitError, sent, pending, ret, compile_res, polls, curTest, curLog, chan,
                 txOpen, done, rx, received, waitResult, emitted>>
  /\ UNCHANGED <<posted, lvars, fvars, rvars>>

\* the notification built from the first recorded result instead of the last
NotifyTestDoneFirstResult ==
  /\ pc = "notify"
  /\ \E written \in BOOLEAN :
       IF written THEN pc' = "poll" /\ UNCHANGED <<res, valuer, fake, error>>
       ELSE /\ EnterFault
            /\ error' = <<"failed to notify valuer that test "
                            \o ToString(curTest.test_id) \o " is done", Cause>>
  /\ trace' = Append(trace, Op("TestDone", curTest.test_id,
                               Some(test_results[1][2].status)))
  /\ curTest' = NoTest
  /\ UNCHANGED <<waitError, sent, pending, ret, compile_res, polls, curLog, test_results,
                 inflight, chan, txOpen, done, rx, received, waitResult, emitted>>
  /\ UNCHANGED <<posted, lvars, fvars, rvars>>

\* lines 226-234: notify_test_done with the status of the result just pushed
NotifyTestDone ==
  /\ pc = "notify"
  /\ \E written \in BOOLEAN :
       IF written THEN pc' = "poll" /\ UNCHANGED <<res, valuer, fake, error>>
       ELSE /\ EnterFault
            /\ error' = <<"failed to notify valuer that test "
                            \o ToString(curTest.test_id) \o " is done", Cause>>
  /\ trace' = Append(trace, Op("TestDone", curTest.test_id,
                               Some(test_results[Len(test_results)][2].status)))
  /\ curTest' = NoTest
  /\ UNCHANGED <<waitError, sent, pending, ret, compile_res, polls, curLog, test_results,
                 inflight, chan, txOpen, done, rx, received, waitResult, emitted>>
  /\ UNCHANGED <<posted, lvars, fvars, rvars>>

\* the outcome sent before the remaining kinds are filled in
DoneSendBeforeLogs ==
  /\ pc = "done_send"
  /\ done' = res
  /\ IF done = "pending" /\ Len(sent) < Len(KindList)
     THEN /\ pc' = "fake_logs"
          /\ fake' = [idx |-> 1, status |-> JudgeFaultStatus, compile_log |-> "",
                      from |-> "fault"]
          /\ UNCHANGED txOpen
     ELSE /\ pc' = "finished"
          /\ txOpen' = FALSE
          /\ UNCHANGED fake
  /\ UNCHANGED <<waitError, error, res, sent, pending, ret, compile_res, valuer, polls,
                 curTest, curLog, test_results, inflight, chan, rx, received,
                 waitResult, emitted, trace>>
  /\ UNCHANGED <<posted, lvars, fvars, rvars>>

\* judge, line 102, and the end of the task, which drops the last Sender
DoneSend ==
  /\ pc = "done_send"
  /\ done' = res
  /\ txOpen' = FALSE
  /\ pc' = "finished"
  /\ UNCHANGED <<waitError, error, res, sent, fake, pending, ret, compile_res, valuer, polls,
                 curTest, curLog, test_results, inflight, chan, rx, received,
                 waitResult, emitted, trace>>
  /\ UNCHANGED <<posted, lvars, fvars, rvars>>

----------------------------------------------------------------------------
(* The consumer of the JobProgress handle                                  *)

\* JobProgress::event returns Some(event)
RecvEvent ==
  /\ rx = "held"
  /\ chan # <<>>
  /\ received' = Append(received, Head(chan))
  /\ chan' = Tail(chan)
  /\ UNCHANGED <<waitError, error, pc, res, sent, fake, pending, ret, compile_res, valuer, polls,
                 curTest, curLog, test_results, inflight, txOpen, done, rx,
                 waitResult, emitted, trace>>
  /\ UNCHANGED <<posted, lvars, fvars, rvars>>

\* the consumer calls JobProgress::wait: the handle moves into the call, which
\* awaits done_rx and reads no event; events_rx stays alive until wait returns
WaitCall ==
  /\ rx = "held"
  /\ rx' = "waiting"
  /\ UNCHANGED <<waitError, error, pc, res, sent, fake, pending, ret, compile_res, valuer, polls,
                 curTest, curLog, test_results, inflight, chan, txOpen, done,
                 received, waitResult, emitted, trace>>
  /\ UNCHANGED <<posted, lvars, fvars, rvars>>

\* wait returns: lines 118-125; the handle, and the events in it, are dropped
WaitResolve ==
  /\ rx = "waiting"
  /\ done # "pending"
  /\ waitResult' = IF done = "Ok" THEN "Success" ELSE "Fault"
  /\ waitError' = IF done = "Ok" THEN <<>>
                  ELSE IF done = "Err" THEN error
                  ELSE <<"background task stopped unexpectedly">>
  /\ rx' = "dropped"
  /\ chan' = <<>>
  /\ UNCHANGED <<error, pc, res, sent, fake, pending, ret, compile_res, valuer, polls,
                 curTest, curLog, test_results, inflight, txOpen, done,
                 received, emitted, trace>>
  /\ UNCHANGED <<posted, lvars, fvars, rvars>>

\* the consumer drops the handle
DropHandle ==
  /\ rx = "held"
  /\ rx' = "dropped"
  /\ chan' = <<>>
  /\ UNCHANGED <<waitError, error, pc, res, sent, fake, pending, ret, compile_res, valuer, polls,
                 curTest, curLog, test_results, inflight, txOpen, done,
                 received, waitResult, emitted, trace>>
  /\ UNCHANGED <<posted, lvars, fvars, rvars>>

----------------------------------------------------------------------------
(* Problem loader: Loader::find, lines 62-114                              *)

\* find is called by task i
Call(i) ==
  /\ lookup[i].pc = "idle"
  /\ finds < MaxFinds
  /\ \E name \in ProblemNames :
       /\ lookup' = [lookup EXCEPT ![i] = [pc |-> "lock", name |-> name,
                                           fid |-> finds + 1, reg |-> 0]]
       /\ ltrace' = Append(ltrace, LOp("call", finds + 1, name, 0, <<>>))
  /\ finds' = finds + 1
  /\ UNCHANGED <<cache, lock, dirs>>
  /\ UNCHANGED <<vars, fvars, rvars>>

\* find returns `result` after the steps `ops`: the MutexGuard is dropped
Return(i, ops, result) ==
  /\ lookup' = [lookup EXCEPT ![i] = IdleLookup]
  /\ lock' = 0
  /\ ltrace' = ltrace \o ops
                 \o <<LOp("return", lookup[i].fid, lookup[i].name, 0, result)>>

\* a lock that is granted while another find holds it
lock_free_always == TRUE

\* self.cache.lock().await completes when no other find holds the mutex
lock_free == lock = 0

\* a cache whose entries are never found
cache_get_miss(name) == None

\* cache.items.get(problem_name), line 67
cache_get(name) == cache[name]

\* lines 66-73: the lock is acquired; a cached entry is returned at once
Lock(i) ==
  /\ lookup[i].pc = "lock"
  /\ lock_free
  /\ LET me == lookup[i]
         op == LOp("lock", me.fid, me.name, 0, <<>>)
         cached_info == cache_get(me.name)
     IN IF IsSome(cached_info)
        THEN Return(i, <<op>>, <<"Some", Unwrap(cached_info).manifest,
                                 Unwrap(cached_info).assets>>)
        ELSE /\ lock' = i
             /\ lookup' = [lookup EXCEPT ![i].pc = "remove_dir"]
             /\ ltrace' = Append(ltrace, op)
  /\ UNCHANGED <<cache, dirs, finds>>
  /\ UNCHANGED <<vars, fvars, rvars>>

\* line 77: remove_dir_all(&assets_path).await.ok(), its failure ignored
RemoveDir(i) ==
  /\ lookup[i].pc = "remove_dir"
  /\ \E removed \in BOOLEAN :
       dirs' = IF removed THEN [dirs EXCEPT ![lookup[i].name] = "absent"] ELSE dirs
  /\ lookup' = [lookup EXCEPT ![i].pc = "create_dir"]
  /\ ltrace' = Append(ltrace, LOp("remove_dir", lookup[i].fid, lookup[i].name, 0, <<>>))
  /\ UNCHANGED <<cache, lock, finds>>
  /\ UNCHANGED <<vars, fvars, rvars>>

\* lines 78-83: create_dir fails when the directory is still there
CreateDir(i) ==
  /\ lookup[i].pc = "create_dir"
  /\ LET me == lookup[i]
         op == LOp("create_dir", me.fid, me.name, 0, <<>>)
     IN \E io_ok \in BOOLEAN :
          IF dirs[me.name] = "absent" /\ io_ok
          THEN /\ dirs' = [dirs EXCEPT ![me.name] = "empty"]
               /\ IF Len(Registries) = 0
                  THEN Return(i, <<op>>, <<"None">>)
                  ELSE /\ lookup' = [lookup EXCEPT ![i].pc = "registry", ![i].reg = 1]
                       /\ ltrace' = Append(ltrace, op)
                       /\ UNCHANGED lock
          ELSE /\ Return(i, <<op>>,
                         <<"Err", "failed to prepare problem assets directory">>)
               /\ UNCHANGED dirs
  /\ UNCHANGED <<cache, finds>>
  /\ UNCHANGED <<vars, fvars, rvars>>

\* a resolved problem returned without being put into the cache
cache_insert_skipped(name, manifest) == cache

\* cache.items.insert(..), lines 102-108
cache_insert(name, manifest) ==
  [cache EXCEPT ![name] = Some([manifest |-> manifest, assets |-> AssetsPath(name)])]

\* the manifest cached, and the search going on to the registries after it
ReturnFoundLater(i, op, manifest) ==
  /\ cache' = cache_insert(lookup[i].name, manifest)
  /\ IF lookup[i].reg >= Len(Registries)
     THEN Return(i, <<op>>, <<"Some", manifest, AssetsPath(lookup[i].name)>>)
     ELSE /\ lookup' = [lookup EXCEPT ![i].reg = @ + 1]
          /\ ltrace' = Append(ltrace, op)
          /\ UNCHANGED lock

\* lines 97-110: the registry returned Some(manifest)
ReturnFound(i, op, manifest) ==
  /\ cache' = cache_insert(lookup[i].name, manifest)
  /\ Return(i, <<op>>, <<"Some", manifest, AssetsPath(lookup[i].name)>>)

\* a failed registry passed over like one that does not know the problem
SkipFailedRegistry(i, op) ==
  /\ UNCHANGED cache
  /\ IF lookup[i].reg >= Len(Registries)
     THEN Return(i, <<op>>, <<"None">>)
     ELSE /\ lookup' = [lookup EXCEPT ![i].reg = @ + 1]
          /\ ltrace' = Append(ltrace, op)
          /\ UNCHANGED lock

\* a failed search remembered in the cache as if it had resolved the problem
ReturnErrorCached(i, op) ==
  /\ cache' = cache_insert(lookup[i].name, CHOOSE m \in Manifests : TRUE)
  /\ Return(i, <<op>>, <<"Err", "failed to search for problem " \o lookup[i].name
                                  \o " in registry " \o Registries[lookup[i].reg]>>)

\* lines 88-95: the registry returned Err, which `?` returns with a context
ReturnError(i, op) ==
  /\ UNCHANGED cache
  /\ Return(i, <<op>>, <<"Err", "failed to search for problem " \o lookup[i].name
                                  \o " in registry " \o Registries[lookup[i].reg]>>)

\* lines 84-113: one iteration of the loop over the registries, and after the
\* last one the return of Ok(None).  A registry that resolves the problem fills
\* the directory; one that fails may have written a part of it.
Consult(i) ==
  /\ lookup[i].pc = "registry"
  /\ LET me == lookup[i] IN
     \E out \in RegistryOutcomes, wrote \in BOOLEAN :
       LET op == LOp("get_problem", me.fid, me.name, me.reg, out) IN
          /\ (wrote => out[1] = "Err")
          /\ dirs' = IF out[1] = "Some" \/ wrote
                     THEN [dirs EXCEPT ![me.name] = "filled"] ELSE dirs
          /\ IF out[1] = "Some" THEN ReturnFound(i, op, out[2])
             ELSE IF out[1] = "Err" THEN ReturnError(i, op)
             ELSE /\ UNCHANGED cache
                  /\ IF me.reg >= Len(Registries)
                     THEN Return(i, <<op>>, <<"None">>)
                     ELSE /\ lookup' = [lookup EXCEPT ![i].reg = @ + 1]
                          /\ ltrace' = Append(ltrace, op)
                          /\ UNCHANGED lock
  /\ UNCHANGED finds
  /\ UNCHANGED <<vars, fvars, rvars>>

LoaderNext == \E i \in Lookups : Call(i) \/ Lock(i) \/ RemoveDir(i) \/ CreateDir(i) \/ Consult(i)

LoaderSpec == Init /\ [][LoaderNext]_<<vars, lvars, fvars, rvars>>

----------------------------------------------------------------------------
(* Single calls of the judge's functions                                   *)

\* TestVisibleComponents
Components == {"STATUS", "TEST_DATA", "OUTPUT", "ANSWER", "RESOURCE_USAGE"}

\* invoker responses to a test invocation: plain output with resource usage;
\* output that is not UTF-8, without resource usage; a checker that failed
RespAscii ==
  [solution |-> CmdOk, checker_exit |-> 0, decision |-> "Ok",
   outputs |-> AllExecOutputs, stdout |-> <<52, 50>>, stderr |-> <<>>]
RespBinary ==
  [solution |-> CommandResult(FALSE, None, None, 0), checker_exit |-> 0,
   decision |-> "WrongAnswer", outputs |-> AllExecOutputs,
   stdout |-> <<255, 10>>, stderr |-> <<254>>]
RespCheckerFailed ==
  [solution |-> CmdOk, checker_exit |-> 1, decision |-> "Ok",
   outputs |-> AllExecOutputs, stdout |-> <<52, 50>>, stderr |-> <<33>>]

\* the tests run before a JudgeLog message, as <<test id, invoker response>>,
\* in the order of their execution
FnRuns ==
  { <<>>, << <<1, RespAscii>> >>, << <<2, RespBinary>> >>,
    << <<1, RespCheckerFailed>> >>,
    << <<1, RespAscii>>, <<2, RespBinary>> >>,
    << <<1, RespAscii>>, <<1, RespBinary>> >> }

\* do_judge's test_results after these runs (line 225)
TestResultsOf(runs) ==
  [i \in 1..Len(runs) |-> <<runs[i][1], Unwrap(ExecResult(runs[i][2]))>>]

\* the test rows of a valuer log: none, one row with any visibility, or two
\* rows in any order of ids (equal ids too)
FnLogRows ==
  {<<>>}
    \cup { <<ValuerRow(t, c, Status("Accepted", "TEST_PASSED"))>> :
             t \in ValuerTestIds, c \in SUBSET Components }
    \cup { <<ValuerRow(t1, c1, Status("Accepted", "TEST_PASSED")),
             ValuerRow(t2, c2, Status("Rejected", "WRONG_ANSWER"))>> :
             t1 \in ValuerTestIds, t2 \in ValuerTestIds,
             c1 \in {{}, Components}, c2 \in {{"STATUS"}} }

\* the subtask rows of a valuer log
FnSubtasks ==
  { <<>>,
    << [subtask_id |-> 2, score |-> 10], [subtask_id |-> 1, score |-> 20] >>,
    << [subtask_id |-> 1, score |-> 10], [subtask_id |-> 1, score |-> 20] >> }

\* the calls of transform
TransformCalls ==
  { [fn |-> "transform",
     arg |-> [valuer_log |-> [ValuerLog("Full", rows) EXCEPT !.subtasks = st],
              runs |-> runs, reads_ok |-> reads_ok]] :
      rows \in FnLogRows, st \in FnSubtasks, runs \in FnRuns, reads_ok \in BOOLEAN }

\* the limits and the command results the classifier is called with: usage
\* absent, below, at and above the limit
FnLimits == {[time |-> 1, memory |-> 2], [time |-> 2, memory |-> 0]}
FnCommandResults(limits) ==
  { CommandResult(spawn_error, cpu_time, memory, exit_code) :
      spawn_error \in BOOLEAN,
      cpu_time \in {None, Some(0), Some(limits.time * NsPerMs),
                    Some(limits.time * NsPerMs + 1)},
      memory \in {None, Some(0), Some(limits.memory), Some(limits.memory + 1)},
      exit_code \in {0, 1, -1} }

\* the calls of describe_command_result
ClassifierCalls ==
  { [fn |-> "describe_command_result", arg |-> [limits |-> l, data |-> d]] :
      l \in FnLimits, d \in UNION {FnCommandResults(x) : x \in FnLimits} }

\* the invoker responses compile is called with: every classification of
\* every step, outputs missing, empty and non-empty step output
FnCompileResponses ==
  { [actions |-> a, outputs |-> o,
     stdout |-> [i \in 1..Len(BuildCommands) |-> out],
     stderr |-> [i \in 1..Len(BuildCommands) |-> err]] :
      a \in [1..Len(BuildCommands) ->
               {CmdOk, CmdRuntime, CmdTle, CommandResult(TRUE, None, None, 0),
                CommandResult(FALSE, None, Some(ToolchainLimits.memory + 1), 0)}],
      o \in {AllCompileOutputs, AllCompileOutputs \ {<<"artifact", 0>>},
             {<<"stdout", 0>>, <<"stderr", 0>>}, AllCompileOutputs \ {<<"stderr", 0>>}},
      out \in {"", "out"}, err \in {"", "warning\n"} }

\* the calls of compile
CompileCalls ==
  { [fn |-> "compile", arg |-> [call_ok |-> ok, response |-> r]] :
      ok \in BOOLEAN, r \in FnCompileResponses }

\* the calls of create_request: every test of the problem, every set of
\* problem files that can be read
CreateRequestCalls ==
  { [fn |-> "create_request", arg |-> [test |-> ProblemTests[t], readable |-> r]] :
      t \in 1..NumTests, r \in SUBSET {"t1", "t2", "a1", CheckerExe} }

\* the invoker responses exec is called with: every classification of the
\* solution's command, every exit and decision of the checker
FnExecResponses ==
  { [solution |-> sol, checker_exit |-> ce, decision |-> d, outputs |-> o,
     stdout |-> <<52, 50>>, stderr |-> <<>>] :
      sol \in {CmdOk, CmdRuntime, CmdTle, CommandResult(TRUE, None, None, 0),
               CommandResult(FALSE, None, Some(ToolchainLimits.memory + 1), 0)},
      ce \in {0, 1},
      d \in {"Ok", "WrongAnswer", "PresentationError", "BadChecker", "invalid"},
      o \in {AllExecOutputs, AllExecOutputs \ {"checker-decision"}} }

\* the calls of exec, from the invoker's response on
ExecCalls == { [fn |-> "exec", arg |-> [response |-> r]] : r \in FnExecResponses }

\* every call taken
\* time limits in ms over the range of u64: 1; the largest limit whose
\* product with 1_000_000 fits, 18446744073709; the next one; 2^63; u64::MAX
FnWideTimes ==
  { to_le_bytes(1),
    <<237, 181, 160, 247, 198, 16, 0, 0>>,
    <<238, 181, 160, 247, 198, 16, 0, 0>>,
    <<0, 0, 0, 0, 0, 0, 0, 128>>,
    <<255, 255, 255, 255, 255, 255, 255, 255>> }

\* cpu times in ns: 0; 448384, which (18446744073710 * 1_000_000) mod 2^64
\* equals, and 448385; 1_000_000 and 1_000_001; 18446744073709000000 and the
\* number after it; u64::MAX
FnWideUsages ==
  { to_le_bytes(0), to_le_bytes(448384), to_le_bytes(448385),
    to_le_bytes(1000000), to_le_bytes(1000001),
    <<64, 149, 247, 255, 255, 255, 255, 255>>,
    <<65, 149, 247, 255, 255, 255, 255, 255>>,
    <<255, 255, 255, 255, 255, 255, 255, 255>> }

\* the time-limit test of describe_command_result on operands from the whole
\* range of u64
TimeLimitCalls ==
  { [fn |-> "time_limit_test", arg |-> [cpu_time_bytes |-> u, time_bytes |-> t]] :
      u \in FnWideUsages, t \in FnWideTimes }

FnInputs ==
  TransformCalls \cup ClassifierCalls \cup CompileCalls \cup CreateRequestCalls
    \cup ExecCalls \cup TimeLimitCalls

FnInit ==
  /\ JobInit
  /\ LoaderInit
  /\ RestInit
  /\ input \in FnInputs
  /\ output = None
  /\ overflow_checks \in BOOLEAN

\* transform_judge_log::transform is called and returns
CallTransform ==
  /\ input.fn = "transform"
  /\ output = None
  /\ output' = Some(transform(input.arg.valuer_log, "", TestResultsOf(input.arg.runs),
                              input.arg.reads_ok))
  /\ UNCHANGED <<vars, lvars, input, overflow_checks, rvars>>

\* describe_command_result is called and returns
CallDescribeCommandResult ==
  /\ input.fn = "describe_command_result"
  /\ output = None
  /\ output' = Some(describe_command_result(input.arg.limits, input.arg.data))
  /\ UNCHANGED <<vars, lvars, input, overflow_checks, rvars>>

\* compile is called and returns
CallCompile ==
  /\ input.fn = "compile"
  /\ output = None
  /\ output' = Some(compile(input.arg.call_ok, input.arg.response))
  /\ UNCHANGED <<vars, lvars, input, overflow_checks, rvars>>

\* create_request is called and returns
CallCreateRequest ==
  /\ input.fn = "create_request"
  /\ output = None
  /\ output' = Some(create_request(input.arg.test, input.arg.readable))
  /\ UNCHANGED <<vars, lvars, input, overflow_checks, rvars>>

\* exec has the invoker's response and returns
CallExec ==
  /\ input.fn = "exec"
  /\ output = None
  /\ output' = Some(ExecResult(input.arg.response))
  /\ UNCHANGED <<vars, lvars, input, overflow_checks, rvars>>

\* describe_command_result reaches its time-limit test (lines 278-282) and the
\* test is decided, or panics
CallTimeLimitTest ==
  /\ input.fn = "time_limit_test"
  /\ output = None
  /\ output' = Some(time_limit_exceeded(input.arg.cpu_time_bytes, input.arg.time_bytes))
  /\ UNCHANGED <<vars, lvars, input, overflow_checks, rvars>>

FnNext ==
  \/ CallTransform
  \/ CallDescribeCommandResult
  \/ CallCompile
  \/ CallCreateRequest
  \/ CallExec
  \/ CallTimeLimitTest

FnSpec == FnInit /\ [][FnNext]_<<vars, lvars, fvars, rvars>>

----------------------------------------------------------------------------

Processor ==
  \/ FindProblem \/ ResolveToolchain \/ Compile \/ FakeLogsStep \/ Send
  \/ SpawnValuer \/ WriteProblemData
  \/ PollError \/ PollTest \/ PollLiveScore \/ PollJudgeLog \/ PollFinish
  \/ Transform \/ ExecStart \/ ExecReturn \/ NotifyTestDone \/ DoneSend

Consumer == RecvEvent \/ WaitCall \/ WaitResolve \/ DropHandle

Next == Processor \/ Consumer

Spec == Init /\ [][Next]_<<vars, lvars, fvars, rvars>>

----------------------------------------------------------------------------
(* REST server: the task start_job spawns (rest.rs 84-104) and get_job     *)

\* progress.event() returns Some(ev): the record is updated under its lock
RestEvent ==
  /\ rpc = "events"
  /\ chan # <<>>
  /\ LET ev == Head(chan) IN
       job' = CASE ev.type = "LiveScore" -> [job EXCEPT !.live_score = Some(ev.n)]
                [] ev.type = "LiveTest" -> [job EXCEPT !.live_test = Some(ev.n)]
                [] OTHER -> [job EXCEPT !.logs = logs_insert(job.logs, Unwrap(ev.log))]
  /\ received' = Append(received, Head(chan))
  /\ chan' = Tail(chan)
  /\ UNCHANGED <<waitError, error, pc, res, sent, fake, pending, ret, compile_res, valuer, polls,
                 curTest, curLog, test_results, inflight, txOpen, done, rx,
                 waitResult, emitted, trace>>
  /\ UNCHANGED <<posted, lvars, fvars, rpc, resp>>

\* the task calling progress.wait() without reading the events to the end
RestStreamAbandoned ==
  /\ rpc = "events"
  /\ rpc' = "wait"
  /\ rx' = "waiting"
  /\ UNCHANGED <<waitError, error, pc, res, sent, fake, pending, ret, compile_res, valuer, polls,
                 curTest, curLog, test_results, inflight, chan, txOpen, done,
                 received, waitResult, emitted, trace>>
  /\ UNCHANGED <<posted, lvars, fvars, job, resp>>

\* progress.event() returns None, every Sender being dropped: the task calls
\* progress.wait()
RestStreamFinished ==
  /\ rpc = "events"
  /\ chan = <<>>
  /\ ~txOpen
  /\ rpc' = "wait"
  /\ rx' = "waiting"
  /\ UNCHANGED <<waitError, error, pc, res, sent, fake, pending, ret, compile_res, valuer, polls,
                 curTest, curLog, test_results, inflight, chan, txOpen, done,
                 received, waitResult, emitted, trace>>
  /\ UNCHANGED <<posted, lvars, fvars, job, resp>>

\* wait returns and the task stores the outcome
RestOutcome ==
  /\ rpc = "wait"
  /\ done # "pending"
  /\ waitResult' = IF done = "Ok" THEN "Success" ELSE "Fault"
  /\ waitError' = IF done = "Ok" THEN <<>>
                  ELSE IF done = "Err" THEN error
                  ELSE <<"background task stopped unexpectedly">>
  /\ job' = [job EXCEPT !.outcome =
               Some(IF done = "Ok" THEN Success ELSE Fault(waitError'))]
  /\ rpc' = "finished"
  /\ rx' = "dropped"
  /\ UNCHANGED <<error, pc, res, sent, fake, pending, ret, compile_res, valuer, polls,
                 curTest, curLog, test_results, inflight, chan, txOpen, done,
                 received, emitted, trace>>
  /\ UNCHANGED <<posted, lvars, fvars, resp>>

\* get_job: the report of the record as it is now
GetJob ==
  /\ resp' = as_rest(job)
  /\ UNCHANGED <<vars, lvars, fvars, job, rpc>>

RestNext == Processor \/ RestEvent \/ RestStreamFinished \/ RestOutcome \/ GetJob

RestSpec == Init /\ [][RestNext]_<<vars, lvars, fvars, rvars>>

\* the runtime schedules the processor task and the REST task whenever they
\* can run
FairRestSpec ==
  /\ RestSpec
  /\ WF_<<vars, rvars>>(Processor)
  /\ WF_<<vars, rvars>>(RestEvent)
  /\ WF_<<vars, rvars>>(RestStreamFinished)
  /\ WF_<<vars, rvars>>(RestOutcome)

\* the runtime schedules the processor task and the task in wait() whenever
\* they can run
FairSpec == Spec /\ WF_vars(Processor) /\ WF_vars(WaitResolve)

----------------------------------------------------------------------------
(* Properties                                                              *)

IsLog(e) == e.type = "LogCreated"

\* the judge logs of the LogCreated events produced so far, in order
EmittedLogs ==
  LET evs == SelectSeq(emitted, IsLog) IN [i \in 1..Len(evs) |-> Unwrap(evs[i].log)]

LogsOfKind(k) == {i \in 1..Len(EmittedLogs) : EmittedLogs[i].kind = k}

\* the processor task has ended
TaskEnded == pc \in {"finished", "panicked"}

\* C1: within one job no judge-log kind appears in more than one LogCreated
\* event, whatever the valuer sends and however the job ends.
C1_KindsUnique ==
  \A i, j \in 1..Len(EmittedLogs) :
    i # j => EmittedLogs[i].kind # EmittedLogs[j].kind

\* a job in which the valuer sent a second log of a kind already emitted
C1_Witness ==
  /\ pc = "panicked"
  /\ Len(EmittedLogs) >= 1

\* a log made by send_fake_logs on the fault path
IsJudgeFaultFake(log) == log = FakeLog(log.kind, JudgeFaultStatus, "")

\* a log made by the transformer from a log of the valuer
IsTransformed(log) ==
  log.status \in {Status("Accepted", "ACCEPTED"), Status("Rejected", "PARTIAL_SOLUTION")}

\* C2: when a job that compiled successfully fails afterwards, then by the
\* time its outcome is sent every kind of JudgeLogKind::list() has exactly one
\* LogCreated event, the kinds the valuer's logs did not cover have the fake
\* log with status InternalError/JudgeFault, and the outcome is Fault.
C2_FaultAfterCompileFillsKinds ==
  (compile_res.ok /\ res = "Err" /\ done # "pending") =>
    /\ done = "Err"
    /\ \A k \in Kinds : Cardinality(LogsOfKind(k)) = 1
    /\ \A i \in 1..Len(EmittedLogs) :
         IsTransformed(EmittedLogs[i]) \/ IsJudgeFaultFake(EmittedLogs[i])
    /\ Cardinality({i \in 1..Len(EmittedLogs) : IsJudgeFaultFake(EmittedLogs[i])})
         = Len(KindList) - Cardinality({i \in 1..Len(EmittedLogs) : IsTransformed(EmittedLogs[i])})
    /\ waitResult \in {"none", "Fault"}

\* a job that emitted one kind from the valuer's log, then failed, and whose
\* wait() has returned
C2_Witness ==
  /\ compile_res.ok /\ res = "Err" /\ done # "pending"
  /\ \E i \in 1..Len(EmittedLogs) : IsTransformed(EmittedLogs[i])
  /\ \E i \in 1..Len(EmittedLogs) : IsJudgeFaultFake(EmittedLogs[i])
  /\ waitResult = "Fault"

\* compile returned Ok(BuildOutcome { result: Err(status), .. })
CompileRejected == IsSome(compile_res.status)

\* C3: when compilation fails the valuer is never spawned and no test is
\* executed, and by the time the outcome is sent the job has emitted exactly
\* one LogCreated per kind of JudgeLogKind::list(), in that order, each the
\* fake log with the compile status and the compile log; the outcome is Success.
C3_CompileFailure ==
  CompileRejected =>
    /\ valuer = "none"
    /\ \A i \in 1..Len(trace) : trace[i].op \in {"CompileInvoke", "LogCreated"}
    /\ test_results = <<>>
    /\ res # "Err"
    /\ compile_res.status[1].kind = "CompilationError"
    /\ done # "pending" =>
         /\ done = "Ok"
         /\ EmittedLogs = [i \in 1..Len(KindList) |->
                             FakeLog(KindList[i], Unwrap(compile_res.status), compile_res.log)]
         /\ waitResult \in {"none", "Success"}

\* a compile failure in the second build step, reported and waited for
C3_Witness ==
  /\ CompileRejected
  /\ compile_res.status[1].code = "COMPILATION_TIMED_OUT"
  /\ compile_res.log =
       "------ step 0 ------\n--- stdout ---\nout--- stderr ---\n"
         \o "------ step 1 ------\n--- stdout ---\nout--- stderr ---\n"
  /\ Len(EmittedLogs) = Len(KindList)
  /\ waitResult = "Success"

\* C4: no event is produced after the completion outcome has been sent (or the
\* completion sender dropped), and wait() returns only when the task has ended.
C4_NoEventAfterDone ==
  /\ [][done # "pending" => emitted' = emitted]_vars
  /\ [](waitResult # "none" => TaskEnded /\ pending = NoEvent)

\* wait() has returned for a job that produced events
C4_Witness ==
  /\ waitResult # "none"
  /\ Len(emitted) >= 2

\* C5: a wait() on a handle whose events were not read returns the outcome of
\* every job whose pipeline finishes: the unread events do not block the job,
\* so while wait() has not returned either the processor or wait() can step.
C5_WaitNotBlocked ==
  (rx = "waiting" /\ waitResult = "none") => ENABLED (Processor \/ WaitResolve)

\* C6: while the consumer holds the handle the channel buffers at most one
\* event and every event produced is either received or buffered, in the order
\* of production; so the processor produces the next event only after the
\* previous one was taken.
C6_Backpressure ==
  rx = "held" =>
    /\ Len(chan) <= 1
    /\ emitted = received \o chan

\* the processor waits in a send behind a buffered event, after the consumer
\* has received two events
C6_Witness ==
  /\ rx = "held"
  /\ Len(received) >= 2
  /\ Len(chan) = 1
  /\ pc = "send"

\* C7: once the handle is dropped a send never waits, adds nothing to the
\* channel, delivers nothing and leaves the job's course alone: the processor
\* continues where a delivered send continues, with no failure recorded.
C7_DropDoesNotCancel ==
  /\ [](rx = "dropped" => chan = <<>>)
  /\ []((rx = "dropped" /\ pc = "send") => ENABLED Send)
  /\ [][(rx = "dropped" /\ pc = "send")
          => (pc' = ret /\ res' = res /\ fake' = fake /\ valuer' = valuer
              /\ received' = received)]_vars

\* the handle was dropped without wait(), later events were discarded and the
\* processor went on to execute a test and notify the valuer
C7_Witness ==
  /\ rx = "dropped"
  /\ waitResult = "none"
  /\ Len(emitted) >= Len(received) + 2
  /\ pc = "poll"
  /\ \E p \in 1..Len(trace) : trace[p].op = "TestDone"

\* C8: a LiveTest(tid) event is produced exactly for the Test messages with
\* live set, as the first operation after the poll that returned the message:
\* before the test's invocation, before its TestDoneNotification and before
\* the LiveTest of any later Test message.
C8_LiveTestOrder ==
  \A p \in 1..Len(trace) :
    /\ trace[p].op = "LiveTest" =>
         /\ p > 1
         /\ trace[p - 1].op = "PollTestLive"
         /\ trace[p - 1].tid = trace[p].tid
    /\ (trace[p].op = "PollTestLive" /\ p < Len(trace)) =>
         /\ trace[p + 1].op = "LiveTest"
         /\ trace[p + 1].tid = trace[p].tid
    /\ (trace[p].op = "PollTestLive" /\ p = Len(trace)) =>
         /\ pc = "send"
         /\ pending = Event("LiveTest", trace[p].tid, None)
    /\ trace[p].op = "Invoke" =>
         /\ trace[p - 1].op \in {"LiveTest", "PollTest"}
         /\ trace[p - 1].tid = trace[p].tid

\* two live tests with different ids were announced, run and notified one
\* after the other
C8_Witness ==
  /\ \E p, q \in 1..Len(trace) :
       /\ p < q /\ q < Len(trace)
       /\ trace[p].op = "LiveTest" /\ trace[q].op = "LiveTest"
       /\ trace[p].tid # trace[q].tid
       /\ trace[q + 1].op = "Invoke"
  /\ Len(trace) > 0
  /\ trace[Len(trace)].op = "TestDone"

\* the last Invoke before position p of the trace, 0 if there is none
RECURSIVE LastInvokeBefore(_)
LastInvokeBefore(p) ==
  IF p <= 1 THEN 0
  ELSE IF trace[p - 1].op = "Invoke" THEN p - 1
  ELSE LastInvokeBefore(p - 1)

\* C9: at most one test invocation is in flight; between sending an invocation
\* and its return the processor does nothing else (no poll, no other
\* invocation), and an invocation is sent only after the previous test's
\* TestDoneNotification was written.
C9_SequentialTests ==
  /\ inflight \in {0, 1}
  /\ inflight = 1 <=> pc = "exec_wait"
  /\ \A p \in 1..Len(trace) :
       trace[p].op = "Invoke" =>
         /\ p < Len(trace) =>
              /\ trace[p + 1].op \in {"ExecOk", "ExecErr"}
              /\ trace[p + 1].tid = trace[p].tid
         /\ LastInvokeBefore(p) # 0 =>
              \E r \in (LastInvokeBefore(p) + 1)..(p - 1) :
                /\ trace[r].op = "TestDone"
                /\ trace[r].tid = trace[LastInvokeBefore(p)].tid

\* a second test is executing after the first one was notified
C9_Witness ==
  /\ inflight = 1
  /\ LastInvokeBefore(Len(trace)) # 0
  /\ trace[Len(trace)].op = "Invoke"

OpCount(op) == Cardinality({p \in 1..Len(trace) : trace[p].op = op})

\* how many of the first p operations are `op`
OpCountUpTo(op, p) == Cardinality({q \in 1..p : trace[q].op = op})

\* C10: ProblemInfo is written exactly once, before the first poll; every test
\* execution that returned an outcome is followed at once, before the next
\* poll, by the write of one TestDoneNotification with the test's id and the
\* outcome's status, and no other TestDoneNotification is written.
C10_ValuerWrites ==
  /\ OpCount("ProblemInfo") <= 1
  /\ \A p \in 1..Len(trace) :
       /\ trace[p].op \in PollOps =>
            \E q \in 1..(p - 1) : trace[q].op = "ProblemInfo"
       /\ (trace[p].op = "ExecOk" /\ p < Len(trace)) =>
            trace[p + 1] = Op("TestDone", trace[p].tid, trace[p].status)
       /\ (trace[p].op = "ExecOk" /\ p = Len(trace)) => pc = "notify"
       /\ trace[p].op = "TestDone" =>
            /\ p > 1
            /\ trace[p - 1] = Op("ExecOk", trace[p].tid, trace[p].status)

\* two tests with different outcomes were notified and the valuer polled again
C10_Witness ==
  /\ \E p, q \in 1..Len(trace) :
       /\ p < q
       /\ trace[p].op = "TestDone" /\ trace[q].op = "TestDone"
       /\ trace[p].status # trace[q].status
  /\ trace[Len(trace)].op \in PollOps

\* the position of the failed poll in the trace, 0 if there is none
RECURSIVE PollErrorAt(_)
PollErrorAt(p) ==
  IF p = 0 THEN 0
  ELSE IF trace[p].op = "PollError" THEN p
  ELSE PollErrorAt(p - 1)

\* C11: a poll that times out is fatal: after it the processor reads no valuer
\* message and runs no test, it only sends logs; by the time the outcome is sent
\* every kind has exactly one log, each from the valuer or the JudgeFault fake
\* log, and wait() returns Fault carrying "valuer response timed out".
C11_PollTimeoutFatal ==
  error = <<"valuer response timed out">> =>
    /\ res = "Err"
    /\ valuer = "killed"
    /\ pc \in {"fake_logs", "send", "done_send", "finished"}
    /\ PollErrorAt(Len(trace)) # 0
    /\ \A p \in (PollErrorAt(Len(trace)) + 1)..Len(trace) : trace[p].op = "LogCreated"
    /\ \A i \in 1..Len(EmittedLogs) :
         (\E p \in 1..PollErrorAt(Len(trace)) : trace[p].op = "LogCreated"
                                                   /\ OpCountUpTo("LogCreated", p) = i)
           \/ IsJudgeFaultFake(EmittedLogs[i])
    /\ done # "pending" =>
         /\ done = "Err"
         /\ \A k \in Kinds : Cardinality(LogsOfKind(k)) = 1
    /\ waitResult # "none" =>
         /\ waitResult = "Fault"
         /\ waitError = <<"valuer response timed out">>

\* the valuer sent one log and a test, then went silent; the job added the
\* missing kind and wait() returned
C11_Witness ==
  /\ error = <<"valuer response timed out">>
  /\ waitResult = "Fault"
  /\ \E i \in 1..Len(EmittedLogs) : IsTransformed(EmittedLogs[i])
  /\ \E i \in 1..Len(EmittedLogs) : IsJudgeFaultFake(EmittedLogs[i])

\* the kinds of the JudgeLog messages the valuer has sent
ValuerLogKinds ==
  {KindList[trace[p].tid] : p \in {q \in 1..Len(trace) : trace[q].op = "PollJudgeLog"}}

\* C12: Finish ends the loop and the job: it is the processor's last operation
\* (no later poll, test or event), the result is Ok, the emitted logs are the
\* transformed logs of the valuer, one per JudgeLog message and none added, so
\* the emitted kinds are the kinds the valuer sent, and wait() returns Success.
C12_FinishEndsJob ==
  \A p \in 1..Len(trace) :
    trace[p].op = "PollFinish" =>
      /\ p = Len(trace)
      /\ pc \in {"done_send", "finished"}
      /\ res = "Ok" /\ error = <<>>
      /\ pending = NoEvent
      /\ valuer = "killed"
      /\ Len(EmittedLogs) = OpCount("PollJudgeLog")
      /\ \A i \in 1..Len(EmittedLogs) : IsTransformed(EmittedLogs[i])
      /\ {EmittedLogs[i].kind : i \in 1..Len(EmittedLogs)} = ValuerLogKinds
      /\ done \in {"pending", "Ok"}
      /\ waitResult \in {"none", "Success"}

\* the valuer sent one kind only and then Finish; wait() has returned
C12_Witness ==
  /\ Len(trace) > 0
  /\ trace[Len(trace)].op = "PollFinish"
  /\ Cardinality(ValuerLogKinds) = 1
  /\ Len(EmittedLogs) = 1
  /\ waitResult = "Success"

----------------------------------------------------------------------------
(* Properties of the problem loader                                        *)

\* the calls of find made so far, by number
Fids == 1..finds

\* the position in ltrace of the step `op` of call f, 0 if it has not happened
PosOf(op, f) ==
  IF \E p \in 1..Len(ltrace) : ltrace[p].op = op /\ ltrace[p].fid = f
  THEN CHOOSE p \in 1..Len(ltrace) : ltrace[p].op = op /\ ltrace[p].fid = f
  ELSE 0

\* the name call f asks for
NameOf(f) == ltrace[PosOf("call", f)].name

\* what call f returned, <<>> when it has not returned
ResultOf(f) == IF PosOf("return", f) = 0 THEN <<>> ELSE ltrace[PosOf("return", f)].result

\* call f returned Ok(Some(..))
Resolved(f) == ResultOf(f) # <<>> /\ ResultOf(f)[1] = "Some"

\* the steps of call f at registry r
Consults(f, r) ==
  {p \in 1..Len(ltrace) :
     ltrace[p].op = "get_problem" /\ ltrace[p].fid = f /\ ltrace[p].reg = r}

\* the get_problem steps of call f
AllConsults(f) == UNION {Consults(f, r) : r \in 1..Len(Registries)}

\* each of the calls f and g was made before the other returned
Concurrent(f, g) ==
  /\ f # g
  /\ PosOf("return", f) = 0 \/ PosOf("call", g) < PosOf("return", f)
  /\ PosOf("return", g) = 0 \/ PosOf("call", f) < PosOf("return", g)

\* call f took the cache lock before call g
LockedFirst(f, g) ==
  /\ PosOf("lock", f) # 0
  /\ PosOf("lock", g) = 0 \/ PosOf("lock", f) < PosOf("lock", g)

C14_LookupsExclusive ==
  /\ Cardinality({i \in Lookups : lookup[i].pc \in {"remove_dir", "create_dir", "registry"}}) <= 1
  /\ \A i \in Lookups : lookup[i].pc \in {"remove_dir", "create_dir", "registry"} <=> lock = i
  /\ \A f \in Fids :
       PosOf("lock", f) # 0 =>
         \A p \in PosOf("lock", f)..Len(ltrace) :
           (PosOf("return", f) = 0 \/ p <= PosOf("return", f)) =>
             (ltrace[p].op = "call" \/ ltrace[p].fid = f)

\* a lookup of one problem waits for the lock while a lookup of another
\* problem, having found nothing in the first registry, asks the second
C14_Witness ==
  \E i, j \in Lookups :
    /\ lookup[i].pc = "registry" /\ lookup[i].reg = 2
    /\ lookup[j].pc = "lock"
    /\ lookup[i].name # lookup[j].name

\* after a find of a name has returned a manifest, the later steps for that
\* name are calls, lock steps and returns of the same pair, and the cache holds it
CacheHitsAfterSuccess ==
  \A f \in Fids :
    Resolved(f) =>
      /\ cache[NameOf(f)] = Some([manifest |-> ResultOf(f)[2], assets |-> ResultOf(f)[3]])
      /\ ResultOf(f)[3] = AssetsPath(NameOf(f))
      /\ \A p \in (PosOf("return", f) + 1)..Len(ltrace) :
           ltrace[p].name = NameOf(f) =>
             /\ ltrace[p].op \in {"call", "lock", "return"}
             /\ ltrace[p].op = "return" => ltrace[p].result = ResultOf(f)

\* C15: once find(p) has succeeded every later find(p) returns the same
\* (manifest, assets_dir) pair without consulting a registry and without
\* removing or creating the directory, and no step removes or replaces a cache
\* entry or touches the directory of a cached problem.
C15_CacheEntryKept ==
  /\ []CacheHitsAfterSuccess
  /\ [][\A n \in ProblemNames :
          IsSome(cache[n]) => (cache'[n] = cache[n] /\ dirs'[n] = dirs[n])]_lvars

\* a problem was resolved from a registry and a find called after that has
\* returned it from the cache
C15_Witness ==
  \E f, g \in Fids :
    /\ Resolved(f) /\ Resolved(g)
    /\ NameOf(f) = NameOf(g)
    /\ PosOf("return", f) < PosOf("call", g)
    /\ AllConsults(g) = {}

\* the get_problem steps of call f, in order
ConsultSeq(f) ==
  LET OfF(e) == e.op = "get_problem" /\ e.fid = f IN SelectSeq(ltrace, OfF)

\* C16: a find that misses the cache consults the registries in declaration
\* order, each at most once, going on only past registries that returned
\* none; a registry that returns a manifest ends the search: the next step is
\* the return of that manifest with the assets path, and the cache holds the
\* pair; a find returns None only when every registry has returned none.
C16_FirstRegistryWins ==
  \A f \in Fids :
    LET cs == ConsultSeq(f) IN
      /\ Len(cs) <= Len(Registries)
      /\ \A k \in 1..Len(cs) :
           /\ cs[k].reg = k
           /\ k < Len(cs) => cs[k].result = <<"None">>
      /\ cs # <<>> => PosOf("create_dir", f) # 0
      /\ (cs # <<>> /\ cs[Len(cs)].result[1] = "Some") =>
           LET p == CHOOSE q \in Consults(f, Len(cs)) : TRUE
               m == cs[Len(cs)].result[2]
           IN /\ PosOf("return", f) = p + 1
              /\ ResultOf(f) = <<"Some", m, AssetsPath(NameOf(f))>>
              /\ cache[NameOf(f)] = Some([manifest |-> m, assets |-> AssetsPath(NameOf(f))])
      /\ ResultOf(f) = <<"None">> =>
           /\ Len(cs) = Len(Registries)
           /\ \A k \in 1..Len(cs) : cs[k].result = <<"None">>
      /\ (Len(cs) = Len(Registries) /\ cs[Len(cs)].result = <<"None">>) =>
           ResultOf(f) = <<"None">>

\* one find was resolved by the first registry and did not ask the second;
\* another asked both registries and returned None
C16_Witness ==
  \E f, g \in Fids :
    /\ Resolved(f) /\ Consults(f, 1) # {} /\ Consults(f, 2) = {}
    /\ ResultOf(g) = <<"None">> /\ Consults(g, 2) # {}

\* the context find puts on the error of registry r for the problem `name`
SearchError(name, r) ==
  <<"Err", "failed to search for problem " \o name \o " in registry " \o Registries[r]>>

\* every registry error in ltrace is the last consultation of its find and is
\* followed at once by the return of the error
RegistryErrorReturned ==
  \A p \in 1..Len(ltrace) :
    (ltrace[p].op = "get_problem" /\ ltrace[p].result = <<"Err">>) =>
      /\ p < Len(ltrace)
      /\ ltrace[p + 1] = LOp("return", ltrace[p].fid, ltrace[p].name, 0,
                              SearchError(ltrace[p].name, ltrace[p].reg))
      /\ \A q \in (p + 1)..Len(ltrace) :
           ~(ltrace[q].op = "get_problem" /\ ltrace[q].fid = ltrace[p].fid)

\* C17: a registry error aborts the search: the find consults no further
\* registry and returns the error (with the registry named in its context);
\* the step in which the registry fails leaves the cache as it was and
\* releases the cache lock, so that a waiting or later find can take it.
C17_RegistryErrorAborts ==
  /\ []RegistryErrorReturned
  /\ [][(Len(ltrace') > Len(ltrace)
          /\ ltrace'[Len(ltrace) + 1].op = "get_problem"
          /\ ltrace'[Len(ltrace) + 1].result = <<"Err">>)
         => (cache' = cache /\ lock # 0 /\ lock' = 0
             /\ lookup'[lock] = IdleLookup)]_lvars

\* the first registry failed for one find; another find of the same problem
\* then took the lock and asked the registries again
C17_Witness ==
  \E f, g \in Fids :
    /\ ResultOf(f) = SearchError(NameOf(f), 1)
    /\ NameOf(g) = NameOf(f)
    /\ PosOf("return", f) < PosOf("lock", g)
    /\ Consults(g, 1) # {}
    /\ cache[NameOf(f)] = None \/ Resolved(g)

----------------------------------------------------------------------------
(* Properties of the invoker client in a job                               *)

\* C18: no invocation of a job is rejected for its id: the compiler driver and
\* the test executor build requests with the nil id, call accepts them, and
\* every request that is POSTed carries an id assigned by call, which is not
\* nil; a request is POSTed for every compile and test invocation of the trace.
C18_NilIdAccepted ==
  /\ CompileRequestId = NilUuid /\ ExecRequestId = NilUuid
  /\ \A k \in 1..Len(error) : error[k] # "request id is not nil"
  /\ \A k \in 1..Len(posted) : posted[k].id # NilUuid
  /\ Len(posted) = OpCount("CompileInvoke") + OpCount("Invoke")
  /\ \A req_id \in {NilUuid} \cup FreshUuids :
       /\ req_id # NilUuid => call_posts(req_id, Len(posted) + 1) = None
       /\ req_id = NilUuid => call_posts(req_id, Len(posted) + 1) = Some(Len(posted) + 1)

\* a compile invocation and two test invocations were sent
C18_Witness ==
  /\ Len(posted) = 3
  /\ posted[1].for = "compile"
  /\ posted[3].for = "test"

----------------------------------------------------------------------------
(* Fatal errors of a job                                                   *)

\* the job failed because the problem or the toolchain was not resolved
Unresolved ==
  /\ error # <<>>
  /\ error[1] \in {"problem not found", "failed to get problem", "failed to find toolchain"}

\* C19: a job whose problem or toolchain cannot be resolved sends no
\* invocation to the invoker and spawns no valuer, before the failure and after
\* it: its only operations are the sends of the fake logs, its result is Err
\* and wait() returns Fault with the error.
C19_UnresolvedIsFatal ==
  /\ pc \in {"find_problem", "resolve_toolchain"} =>
       (posted = <<>> /\ valuer = "none" /\ trace = <<>>)
  /\ Unresolved =>
       /\ res = "Err"
       /\ posted = <<>>
       /\ valuer = "none"
       /\ inflight = 0
       /\ \A p \in 1..Len(trace) : trace[p].op = "LogCreated"
       /\ pc \in {"fake_logs", "send", "done_send", "finished"}
       /\ done \in {"pending", "Err"}
       /\ waitResult # "none" => (waitResult = "Fault" /\ waitError = error)

\* the toolchain was not found and wait() has returned the Fault
C19_Witness ==
  /\ error = <<"failed to find toolchain", Cause>>
  /\ waitResult = "Fault"
  /\ Len(EmittedLogs) = Len(KindList)

\* the position of the last poll of the valuer in the trace, 0 if there is none
RECURSIVE LastPollAt(_)
LastPollAt(p) ==
  IF p = 0 THEN 0
  ELSE IF trace[p].op \in PollOps THEN p
  ELSE LastPollAt(p - 1)

\* the job failed with an error of the test executor
ExecFailed ==
  /\ error # <<>>
  /\ \E t \in ValuerTestIds : error[1] = ExecContext(t)

\* C20: an error of the test executor fails the job: the failed test is the
\* one of the last Test message polled; after that poll the valuer is neither
\* polled nor notified, the only operations are the test's LiveTest event
\* and invocation and the sends of the fake logs; the valuer is killed, the
\* result is Err and wait() returns Fault with the error under the context
\* naming the test.
C20_ExecErrorIsFatal ==
  ExecFailed =>
    LET lp == LastPollAt(Len(trace)) IN
      /\ lp # 0
      /\ trace[lp].op \in {"PollTest", "PollTestLive"}
      /\ error[1] = ExecContext(trace[lp].tid)
      /\ \A p \in (lp + 1)..Len(trace) :
           /\ trace[p].op \in {"LiveTest", "Invoke", "ExecErr", "LogCreated"}
           /\ trace[p].op \in {"LiveTest", "Invoke", "ExecErr"} => trace[p].tid = trace[lp].tid
      /\ res = "Err"
      /\ valuer = "killed"
      /\ inflight = 0
      /\ pc \in {"fake_logs", "send", "done_send", "finished"}
      /\ done \in {"pending", "Err"}
      /\ waitResult # "none" => (waitResult = "Fault" /\ waitError = error)

\* the first test was run and notified, the invocation of the second failed,
\* and wait() has returned the Fault
C20_Witness ==
  /\ ExecFailed
  /\ trace[LastPollAt(Len(trace))].tid = 2
  /\ \E p \in 1..Len(trace) : trace[p] = Op("ExecErr", 2, None)
  /\ \E p \in 1..Len(trace) : trace[p].op = "TestDone" /\ trace[p].tid = 1
  /\ waitResult = "Fault"

----------------------------------------------------------------------------
(* Checker failures                                                        *)

----------------------------------------------------------------------------
(* Properties of the log transformer                                       *)

\* a call of transform has returned a log
Transformed == input.fn = "transform" /\ IsSome(output) /\ Unwrap(output).res = "ok"

\* test tid was run before the log was asked for
Ran(runs, tid) == \E i \in 1..Len(runs) : runs[i][1] = tid

\* the invoker response of the last run of test tid
LastRun(runs, tid) ==
  runs[CHOOSE i \in 1..Len(runs) :
         runs[i][1] = tid /\ \A j \in (i + 1)..Len(runs) : runs[j][1] # tid][2]

\* row is what visibility allows for the valuer's row item: each field is
\* set iff its bit is in item.components and its value exists
VisibilityHonored(row, item, runs) ==
  LET ran == Ran(runs, item.test_id) IN
    /\ row.test_id = item.test_id
    /\ IsSome(row.status) <=> "STATUS" \in item.components
    /\ IsSome(row.test_stdin) <=> ("TEST_DATA" \in item.components /\ ran)
    /\ IsSome(row.test_stdout) <=> ("OUTPUT" \in item.components /\ ran)
    /\ IsSome(row.test_stderr) <=> ("OUTPUT" \in item.components /\ ran)
    /\ IsSome(row.test_answer) <=>
         ("ANSWER" \in item.components /\ ran /\ IsSome(ProblemTests[item.test_id].correct))
    /\ IsSome(row.time_usage) <=>
         ("RESOURCE_USAGE" \in item.components /\ ran
            /\ ExecResult(LastRun(runs, item.test_id)) # Some(make_return_value_for_judge_fault)
            /\ IsSome(LastRun(runs, item.test_id).solution.cpu_time))
    /\ IsSome(row.memory_usage) <=>
         ("RESOURCE_USAGE" \in item.components /\ ran
            /\ ExecResult(LastRun(runs, item.test_id)) # Some(make_return_value_for_judge_fault)
            /\ IsSome(LastRun(runs, item.test_id).solution.memory))

\* C22: in every test row of a log the transformer returns, each payload
\* field is set iff its visibility bit is set in the valuer's row and the value
\* exists: the test was run (for the test data, the output, the answer and
\* the resource usage), the test has a reference answer (for the answer), the
\* invoker reported the usage (for the time and the memory).
C22_VisibilityHonored ==
  Transformed =>
    LET log == Unwrap(output).log
        rows == input.arg.valuer_log.tests
    IN /\ Len(log.tests) = Len(rows)
       /\ \A k \in 1..Len(log.tests) :
            \E i \in 1..Len(rows) :
              VisibilityHonored(log.tests[k], rows[i], input.arg.runs)
       /\ \A i \in 1..Len(rows) :
            \E k \in 1..Len(log.tests) :
              VisibilityHonored(log.tests[k], rows[i], input.arg.runs)

\* a row of a test that was run, with only the output and the resource usage
\* visible
C22_Witness ==
  /\ Transformed
  /\ Len(Unwrap(output).log.tests) = 1
  /\ input.arg.valuer_log.tests[1].components = {"OUTPUT", "RESOURCE_USAGE"}
  /\ IsSome(Unwrap(output).log.tests[1].test_stdout)
  /\ IsSome(Unwrap(output).log.tests[1].time_usage)
  /\ ~IsSome(Unwrap(output).log.tests[1].test_stdin)

\* s is non-decreasing / strictly increasing by the field named key
NonDecreasing(s, key) == \A i \in 1..(Len(s) - 1) : s[i][key] <= s[i + 1][key]
StrictlyIncreasing(s, key) == \A i \in 1..(Len(s) - 1) : s[i][key] < s[i + 1][key]

\* the rows of s name pairwise different values of the field named key
DistinctKeys(s, key) == \A i, j \in 1..Len(s) : s[i][key] = s[j][key] => i = j

\* C23 as stated: in every log the transformer returns, tests is strictly
\* increasing by test_id and subtasks is non-decreasing by subtask_id.
C23_TestsStrictlySorted ==
  Transformed =>
    /\ StrictlyIncreasing(Unwrap(output).log.tests, "test_id")
    /\ NonDecreasing(Unwrap(output).log.subtasks, "subtask_id")

\* C23, amended: in every log the transformer returns, tests is non-decreasing
\* by test_id, and strictly increasing when the valuer's log names every test
\* at most once; subtasks is non-decreasing by subtask_id.
C23_Sorted ==
  Transformed =>
    /\ NonDecreasing(Unwrap(output).log.tests, "test_id")
    /\ DistinctKeys(input.arg.valuer_log.tests, "test_id") =>
         StrictlyIncreasing(Unwrap(output).log.tests, "test_id")
    /\ NonDecreasing(Unwrap(output).log.subtasks, "subtask_id")

\* a valuer log with the rows of tests 2, 1 and the subtasks 2, 1 in that
\* order was transformed
C23_Witness ==
  /\ Transformed
  /\ Len(input.arg.valuer_log.tests) = 2
  /\ input.arg.valuer_log.tests[1].test_id = 2
  /\ input.arg.valuer_log.tests[2].test_id = 1
  /\ Len(input.arg.valuer_log.subtasks) = 2
  /\ input.arg.valuer_log.subtasks[1].subtask_id = 2
  /\ Unwrap(output).log.tests[1].test_id = 1
  /\ Unwrap(output).log.subtasks[1].subtask_id = 1

----------------------------------------------------------------------------
(* Properties of the command-result classifier                             *)

\* a call of describe_command_result has returned
Classified == input.fn = "describe_command_result" /\ IsSome(output)

\* the usage is reported and strictly above the limit
TimeExceeded(limits, data) ==
  \E usage \in {data.cpu_time[i] : i \in 1..Len(data.cpu_time)} :
    usage > limits.time * 1000000
MemExceeded(limits, data) ==
  \E usage \in {data.memory[i] : i \in 1..Len(data.memory)} :
    usage > limits.memory

\* C24: the classifier returns the first case that matches, in the order
\* Startup (spawn error), TimeLimit (cpu_time > limits.time * 1_000_000),
\* MemLimit (memory > limits.memory), Runtime (exit code # 0), and Ok
\* otherwise; usage equal to the limit or absent is no violation.
C24_ClassifierOrder ==
  Classified =>
    LET limits == input.arg.limits
        data == input.arg.data
        status == Unwrap(output)
    IN /\ status = "Startup" <=> data.spawn_error
       /\ status = "TimeLimit" <=> (~data.spawn_error /\ TimeExceeded(limits, data))
       /\ status = "MemLimit" <=>
            (~data.spawn_error /\ ~TimeExceeded(limits, data) /\ MemExceeded(limits, data))
       /\ status = "Runtime" <=>
            (~data.spawn_error /\ ~TimeExceeded(limits, data)
               /\ ~MemExceeded(limits, data) /\ data.exit_code # 0)
       /\ status = "Ok" <=>
            (~data.spawn_error /\ ~TimeExceeded(limits, data)
               /\ ~MemExceeded(limits, data) /\ data.exit_code = 0)
       /\ (data.cpu_time \in {None, Some(limits.time * 1000000)}
             /\ data.memory \in {None, Some(limits.memory)})
            => status \notin {"TimeLimit", "MemLimit"}

\* a command that used exactly the time and the memory allowed is Ok
C24_Witness ==
  /\ Classified
  /\ ~input.arg.data.spawn_error
  /\ input.arg.data.cpu_time = Some(input.arg.limits.time * 1000000)
  /\ input.arg.data.memory = Some(input.arg.limits.memory)
  /\ input.arg.data.exit_code = 0
  /\ Unwrap(output) = "Ok"

----------------------------------------------------------------------------
(* Properties of the compiler driver                                       *)

\* a call of compile has returned, the invoker having answered
Compiled == input.fn = "compile" /\ IsSome(output) /\ input.arg.call_ok

\* the first build step (1-based) that is not Ok, 0 if there is none
FirstBad(response) ==
  LET bad == {i \in 1..Len(BuildCommands) :
                describe_command_result(ToolchainLimits, response.actions[i]) # "Ok"}
  IN IF bad = {} THEN 0 ELSE CHOOSE i \in bad : \A j \in bad : i <= j

\* the number of steps compile classifies
StepsClassified(response) ==
  IF FirstBad(response) = 0 THEN Len(BuildCommands) ELSE FirstBad(response)

\* the invoker returned stdout and stderr of the steps compile classifies
StepOutputsPresent(response) ==
  \A i \in 0..(StepsClassified(response) - 1) :
    <<"stdout", i>> \in response.outputs /\ <<"stderr", i>> \in response.outputs

\* the segments of the first n steps as lines 216-220 append them
RECURSIVE LogOfSteps(_, _)
LogOfSteps(response, n) ==
  IF n = 0 THEN ""
  ELSE LogOfSteps(response, n - 1)
         \o StepSegment(n - 1, response.stdout[n], response.stderr[n])

\* C25: compile classifies the build steps in order and stops at the first
\* step that is not Ok: it returns Err(CompilationError) with code
\* COMPILATION_TIMED_OUT for TimeLimit and COMPILER_FAILED otherwise, the log
\* holds the steps up to that one only, the outputs of later steps and the
\* artifact are not read; the artifact is read when every step is Ok.
C25_StopsAtFirstFailure ==
  (Compiled /\ StepOutputsPresent(input.arg.response)) =>
    LET response == input.arg.response
        r == Unwrap(output)
        fb == FirstBad(response)
    IN /\ r.log = LogOfSteps(response, StepsClassified(response))
       /\ fb # 0 =>
            /\ ~r.err /\ ~r.ok
            /\ r.status = Some(Status("CompilationError",
                 IF describe_command_result(ToolchainLimits, response.actions[fb]) = "TimeLimit"
                 THEN "COMPILATION_TIMED_OUT" ELSE "COMPILER_FAILED"))
       /\ fb = 0 =>
            /\ r.status = None
            /\ r.ok <=> <<"artifact", 0>> \in response.outputs
            /\ r.err <=> <<"artifact", 0>> \notin response.outputs

\* the first step timed out; the invoker returned neither the outputs of
\* the second step nor an artifact
C25_Witness ==
  /\ Compiled
  /\ input.arg.response.outputs = {<<"stdout", 0>>, <<"stderr", 0>>}
  /\ input.arg.response.actions[1] = CmdTle
  /\ input.arg.response.actions[2] = CmdRuntime
  /\ Unwrap(output).status = Some(Status("CompilationError", "COMPILATION_TIMED_OUT"))
  /\ Unwrap(output).log = StepSegment(0, input.arg.response.stdout[1],
                                        input.arg.response.stderr[1])

\* the segment of a step with a line break after stdout and after stderr
FramedSegment(step_no, stdout, stderr) ==
  "------ step " \o ToString(step_no) \o " ------\n"
    \o "--- stdout ---\n" \o stdout \o "\n--- stderr ---\n" \o stderr \o "\n"

RECURSIVE FramedLogOfSteps(_, _)
FramedLogOfSteps(response, n) ==
  IF n = 0 THEN ""
  ELSE FramedLogOfSteps(response, n - 1)
         \o FramedSegment(n - 1, response.stdout[n], response.stderr[n])

\* C26: for each classified build step i the compile log gains exactly the
\* segment "------ step i ------\n--- stdout ---\n{stdout}\n--- stderr ---\n{stderr}\n",
\* also when stdout or stderr is empty.
C26_FramedSegments ==
  (Compiled /\ StepOutputsPresent(input.arg.response)) =>
    Unwrap(output).log =
      FramedLogOfSteps(input.arg.response, StepsClassified(input.arg.response))

----------------------------------------------------------------------------
(* Properties of the test invocation                                       *)

\* a call of create_request has returned a request
RequestCreated ==
  input.fn = "create_request" /\ IsSome(output) /\ Unwrap(output).res = "ok"

\* C27: the invocation of a test declares the input "correct" and the
\* checker's environment variable JJS_CORR iff the test has a reference
\* answer; the input is the reference answer file and JJS_CORR names it.
C27_CorrectIffReferenceAnswer ==
  RequestCreated =>
    LET request == Unwrap(output)
        test == input.arg.test
        corr_inputs == {i \in 1..Len(request.inputs) : request.inputs[i].file_id = "correct"}
        corr_env == {i \in 1..Len(request.checker_env) :
                       request.checker_env[i].name = "JJS_CORR"}
    IN /\ corr_inputs # {} <=> IsSome(test.correct)
       /\ corr_env # {} <=> IsSome(test.correct)
       /\ \A i \in corr_inputs : request.inputs[i].source = FileData(Unwrap(test.correct))
       /\ \A i \in corr_env : request.checker_env[i].file = "correct"
       /\ Cardinality(corr_inputs) <= 1 /\ Cardinality(corr_env) <= 1

\* the request of a test without reference answer was built
C27_Witness ==
  /\ RequestCreated
  /\ ~IsSome(input.arg.test.correct)
  /\ Len(Unwrap(output).inputs) = 1
  /\ Len(Unwrap(output).checker_env) = Len(BaseCheckerEnv)

----------------------------------------------------------------------------
(* Properties of the payload fields                                        *)

\* base64 decoding (RFC 4648) of a sequence of sextets with 64 for the pad
RECURSIVE base64_decode(_)
base64_decode(chars) ==
  IF Len(chars) < 4 THEN <<>>
  ELSE LET pad(k) == chars[k] = 64
           v(k) == IF pad(k) THEN 0 ELSE chars[k]
           n == v(1) * 262144 + v(2) * 4096 + v(3) * 64 + v(4)
           bytes == <<n \div 65536, (n \div 256) % 256, n % 256>>
       IN SubSeq(bytes, 1, IF pad(3) THEN 1 ELSE IF pad(4) THEN 2 ELSE 3)
            \o base64_decode(SubSeq(chars, 5, Len(chars)))

\* the invoker response of the first run of test tid
FirstRun(runs, tid) ==
  runs[CHOOSE i \in 1..Len(runs) :
         runs[i][1] = tid /\ \A j \in 1..(i - 1) : runs[j][1] # tid][2]

\* C28: in every test row of a log the transformer returns, decoding
\* test_stdin, test_stdout, test_stderr and test_answer from base64 yields the
\* bytes of the test file, of the solution's stdout and stderr as the invoker
\* returned them, and of the reference answer file.
C28_RoundTrip ==
  Transformed =>
    \A k \in 1..Len(Unwrap(output).log.tests) :
      LET row == Unwrap(output).log.tests[k]
          tid == row.test_id
      IN /\ IsSome(row.test_stdin) =>
              base64_decode(Unwrap(row.test_stdin)) = FileData(ProblemTests[tid].path)
         /\ IsSome(row.test_answer) =>
              base64_decode(Unwrap(row.test_answer))
                = FileData(Unwrap(ProblemTests[tid].correct))
         /\ IsSome(row.test_stdout) =>
              base64_decode(Unwrap(row.test_stdout)) = FirstRun(input.arg.runs, tid).stdout
         /\ IsSome(row.test_stderr) =>
              base64_decode(Unwrap(row.test_stderr)) = FirstRun(input.arg.runs, tid).stderr

----------------------------------------------------------------------------
(* Properties of the REST job record                                       *)

\* report r tells of record j what the record holds
ReportConsistent(r, j) ==
  /\ r.completed <=> IsSome(j.outcome)
  /\ IsSome(r.error) <=> (IsSome(j.outcome) /\ Unwrap(j.outcome).kind = "Fault")

\* C29: in every state of the job record, its report has completed = true iff
\* the outcome is set and an error iff the outcome is Fault; the outcome, once
\* set, is never changed, and completed never goes back to false, neither for
\* the record nor from one returned report to the next.
C29_RecordConsistent ==
  /\ [](ReportConsistent(as_rest(job), job))
  /\ [][/\ IsSome(job.outcome) => job'.outcome = job.outcome
        /\ as_rest(job).completed => as_rest(job').completed
        /\ resp.completed => resp'.completed]_<<job, resp>>

\* the job ended in a fault and get_job reported it
C29_Witness ==
  /\ IsSome(job.outcome)
  /\ Unwrap(job.outcome).kind = "Fault"
  /\ resp.completed
  /\ IsSome(resp.error)
  /\ Len(job.logs) = Len(KindList)

----------------------------------------------------------------------------
(* Properties of rows without execution outcome                            *)

\* a call of transform whose valuer log names only tests that were not run
\* before it
NoRowRan ==
  /\ input.fn = "transform"
  /\ \A i \in 1..Len(input.arg.valuer_log.tests) :
       ~Ran(input.arg.runs, input.arg.valuer_log.tests[i].test_id)

\* C30: when the valuer's log names tests for which no execution outcome was
\* recorded, the transformer returns for each of them a row with the test id
\* and, when STATUS is visible, the status, no other field set; it reads no
\* problem file for them, so it succeeds also when no file can be read.
C30_BareRowWithoutOutcome ==
  /\ (NoRowRan /\ IsSome(output)) => Unwrap(output).res = "ok"
  /\ Transformed =>
       /\ Len(Unwrap(output).log.tests) = Len(input.arg.valuer_log.tests)
       /\ \A k \in 1..Len(Unwrap(output).log.tests) :
            LET row == Unwrap(output).log.tests[k] IN
              ~Ran(input.arg.runs, row.test_id) =>
                /\ \E i \in 1..Len(input.arg.valuer_log.tests) :
                     LET item == input.arg.valuer_log.tests[i] IN
                       /\ row.test_id = item.test_id
                       /\ row.status = IF "STATUS" \in item.components
                                       THEN Some(item.status) ELSE None
                /\ row.test_stdin = None /\ row.test_stdout = None
                /\ row.test_stderr = None /\ row.test_answer = None
                /\ row.time_usage = None /\ row.memory_usage = None

\* the valuer's log showed every component of test 1, which was not run
\* (test 2 was), and no problem file could be read
C30_Witness ==
  /\ NoRowRan
  /\ IsSome(output)
  /\ ~input.arg.reads_ok
  /\ Len(input.arg.runs) = 1
  /\ Len(input.arg.valuer_log.tests) = 1
  /\ input.arg.valuer_log.tests[1].test_id = 1
  /\ input.arg.valuer_log.tests[1].components = Components
  /\ Unwrap(output).log.tests[1].status = Some(input.arg.valuer_log.tests[1].status)
  /\ Unwrap(output).log.tests[1].test_stdin = None

----------------------------------------------------------------------------
(* Properties of the valuer child                                          *)

\* do_judge has returned or the task has panicked
ProcessingEnded == res # "none" \/ pc = "panicked"

\* C31: the valuer child is spawned at most once per job and only after a
\* compile that succeeded, and it is killed as soon as the job's processing
\* ends, on Finish as on every fault or panic after the spawn.
C31_ValuerLifetime ==
  /\ OpCount("Spawn") <= 1
  /\ valuer # "none" <=> OpCount("Spawn") = 1
  /\ \A q \in 1..Len(trace) :
       trace[q].op = "Spawn" =>
         /\ compile_res.ok
         /\ \E p \in 1..(q - 1) : trace[p].op = "CompileInvoke"
  /\ ProcessingEnded => valuer # "running"
  /\ (ProcessingEnded /\ OpCount("Spawn") = 1) => valuer = "killed"

\* a job that failed in the test loop, after the spawn, has ended
C31_Witness ==
  /\ pc = "finished"
  /\ res = "Err"
  /\ OpCount("Spawn") = 1
  /\ OpCount("PollTest") >= 1
  /\ valuer = "killed"

----------------------------------------------------------------------------
(* Properties of the faults before the test loop                           *)

\* do_judge failed before it had a build outcome: the problem lookup, the
\* toolchain lookup or the compiler driver failed
FailedBeforeBuild == res = "Err" /\ compile_res = NoBuildOutcome

\* C32: when the job fails before or during compilation, then by the time
\* Fault is reported the events are exactly one LogCreated per kind of
\* JudgeLogKind::list(), in its order, each with status
\* InternalError/JUDGE_FAULT, an empty compile log, no tests and score 0.
C32_FakeLogsBeforeBuild ==
  (FailedBeforeBuild /\ done # "pending") =>
    /\ done = "Err"
    /\ Len(emitted) = Len(KindList)
    /\ \A i \in 1..Len(emitted) :
         /\ emitted[i].type = "LogCreated"
         /\ Unwrap(emitted[i].log).kind = KindList[i]
         /\ Unwrap(emitted[i].log).status = [kind |-> "InternalError", code |-> "JUDGE_FAULT"]
         /\ Unwrap(emitted[i].log).compile_log = ""
         /\ Unwrap(emitted[i].log).tests = <<>>
         /\ Unwrap(emitted[i].log).subtasks = <<>>
         /\ Unwrap(emitted[i].log).score = 0

\* the compiler driver failed (the invoker call or an output read) and the
\* job has reported Fault
C32_Witness ==
  /\ FailedBeforeBuild
  /\ done = "Err"
  /\ error = <<Cause>>
  /\ OpCount("CompileInvoke") = 1
  /\ Len(emitted) = Len(KindList)

----------------------------------------------------------------------------
(* Properties of a repeated judge-log kind                                 *)

\* the valuer's last message was a JudgeLog of a kind already emitted
RepeatedKind ==
  /\ pc = "panicked"
  /\ trace # <<>>
  /\ trace[Len(trace)].op = "PollJudgeLog"
  /\ KindList[trace[Len(trace)].tid] \in {EmittedLogs[i].kind : i \in 1..Len(EmittedLogs)}

\* C33: when the valuer sends a JudgeLog of a kind already emitted, no second
\* LogCreated of that kind is produced, the event stream ends (every Sender
\* is dropped, nothing more is sent), and a consumer in wait() gets Fault
\* rather than waiting for ever.
C33_RepeatedKindFaults ==
  /\ [](pc = "panicked" =>
         /\ RepeatedKind
         /\ ~txOpen
         /\ done = "closed"
         /\ \A i, j \in 1..Len(EmittedLogs) :
              EmittedLogs[i].kind = EmittedLogs[j].kind => i = j)
  /\ [][pc = "panicked" => emitted' = emitted]_vars
  /\ (pc = "panicked" /\ rx = "waiting") ~>
       (waitResult = "Fault" /\ waitError = <<"background task stopped unexpectedly">>)

\* the valuer repeated a kind and the consumer's wait() returned Fault
C33_Witness ==
  /\ RepeatedKind
  /\ waitResult = "Fault"
  /\ waitError = <<"background task stopped unexpectedly">>

----------------------------------------------------------------------------
(* Properties of a valuer that closes its output                           *)

\* the poll found the valuer's output closed
ValuerClosed == error = poll_error("eof")

\* C34: when the valuer closes its output or exits before Finish, the poll
\* fails at once and the job does not hang: it reads no further message and
\* runs no test, emits the JudgeFault fake log of every kind not yet
\* emitted, and reports Fault, which the REST task stores as the outcome.
C34_ClosedValuerFaults ==
  /\ [](ValuerClosed =>
         /\ res = "Err"
         /\ valuer = "killed"
         /\ pc \in {"fake_logs", "send", "done_send", "finished"}
         /\ PollErrorAt(Len(trace)) # 0
         /\ \A p \in (PollErrorAt(Len(trace)) + 1)..Len(trace) :
              /\ trace[p].op = "LogCreated"
              /\ IsJudgeFaultFake(EmittedLogs[OpCountUpTo("LogCreated", p)]))
  /\ ValuerClosed ~>
       /\ done = "Err"
       /\ \A k \in Kinds : Cardinality(LogsOfKind(k)) = 1
       /\ job.outcome = Some(Fault(poll_error("eof")))
       /\ Len(job.logs) = Len(KindList)

\* the valuer sent one log and closed its output; the job added the missing
\* kind and ended in Fault
C34_Witness ==
  /\ ValuerClosed
  /\ job.outcome = Some(Fault(poll_error("eof")))
  /\ \E i \in 1..Len(EmittedLogs) : IsTransformed(EmittedLogs[i])
  /\ \E i \in 1..Len(EmittedLogs) : IsJudgeFaultFake(EmittedLogs[i])

----------------------------------------------------------------------------
(* Properties of a test that was run more than once                        *)

\* the 1-based positions in runs of the executions of test tid
RunsOf(runs, tid) == {j \in 1..Len(runs) : runs[j][1] = tid}

\* C35: every row of a test that was run, also of one run more than once,
\* is the row of one execution of the test: its output and its resource
\* usage are those of the same run.
C35_RowFromOneExecution ==
  Transformed =>
    \A k \in 1..Len(Unwrap(output).log.tests) :
      LET row == Unwrap(output).log.tests[k]
          runs == input.arg.runs
      IN RunsOf(runs, row.test_id) # {} =>
           \E j \in RunsOf(runs, row.test_id),
              i \in 1..Len(input.arg.valuer_log.tests) :
             LET one == <<TestResultsOf(runs)[j]>> IN
               row = export_test(input.arg.valuer_log.tests[i], Some(one[1][2]), one,
                                 TRUE).row

----------------------------------------------------------------------------
(* Properties of the status of a test                                      *)

\* a call of exec has returned an outcome
Executed == input.fn = "exec" /\ IsSome(output) /\ IsSome(Unwrap(output))

\* C36: the status of a test outcome is determined by the checker's exit
\* code and decision alone; the solution command's spawn error, exit code,
\* cpu time and memory do not enter it, so a solution over its limits or with
\* a non-zero exit code is Accepted/TEST_PASSED when the checker exits 0
\* with Ok.
C36_StatusFromCheckerOnly ==
  Executed =>
    LET response == input.arg.response
        status == Unwrap(Unwrap(output)).status
    IN status =
         IF response.checker_exit # 0 \/ response.decision \in {"invalid", "BadChecker"}
         THEN [kind |-> "InternalError", code |-> "JUDGE_FAULT"]
         ELSE IF response.decision = "Ok"
         THEN [kind |-> "Accepted", code |-> "TEST_PASSED"]
         ELSE IF response.decision = "WrongAnswer"
         THEN [kind |-> "Rejected", code |-> "WRONG_ANSWER"]
         ELSE [kind |-> "Rejected", code |-> "PRESENTATION_ERROR"]

\* a solution over its time limit, accepted by the checker
C36_Witness ==
  /\ Executed
  /\ input.arg.response.solution = CmdTle
  /\ input.arg.response.checker_exit = 0
  /\ input.arg.response.decision = "Ok"
  /\ Unwrap(Unwrap(output)).status = [kind |-> "Accepted", code |-> "TEST_PASSED"]

----------------------------------------------------------------------------
(* Properties of test ids outside the manifest                             *)

\* the positions of the Test messages that name a test the problem lacks
UnknownTestPolls ==
  {p \in 1..Len(trace) : /\ trace[p].op \in {"PollTest", "PollTestLive"}
                         /\ trace[p].tid \notin 1..NumTests}

\* C37: a Test message naming a test that is not in the manifest fails the
\* job with Fault ("unknown test") and no invocation is sent for it: after
\* it the processor only announces the test, if live, and sends fake logs.
\* So every recorded outcome is of a test of the manifest, and transform,
\* which looks a test up only for rows with a recorded outcome, never
\* indexes out of range, also when the valuer's log names such a test.
C37_UnknownTestFaults ==
  /\ \A p \in UnknownTestPolls :
       /\ \A q \in (p + 1)..Len(trace) : trace[q].op \in {"LiveTest", "LogCreated"}
       /\ \/ pc = "send" /\ ret = "exec"
          \/ pc = "exec"
          \/ /\ res = "Err"
             /\ error = <<"failed to judge solution on test " \o ToString(trace[p].tid),
                          "unknown test">>
       /\ done # "pending" => done = "Err"
  /\ \A i \in 1..Len(test_results) : test_results[i][1] \in 1..NumTests
  /\ \A q \in 1..Len(trace) : trace[q].op = "Invoke" => trace[q].tid \in 1..NumTests
  /\ pc = "transform" =>
       \A reads_ok \in BOOLEAN :
         transform(curLog, compile_res.log, test_results, reads_ok).res # "panic"

\* the valuer's log named a test the problem lacks, with its data visible,
\* and was transformed; then the valuer asked for that test and the job
\* reported Fault
C37_Witness ==
  /\ UnknownTestPolls # {}
  /\ done = "Err"
  /\ error = <<ExecContext(NumTests + 1), "unknown test">>
  /\ \E i \in 1..Len(EmittedLogs) :
       /\ Len(EmittedLogs[i].tests) = 1
       /\ EmittedLogs[i].tests[1].test_id = NumTests + 1
       /\ EmittedLogs[i].tests[1].test_stdin = None

----------------------------------------------------------------------------
(* Properties of the logs of the REST job record                           *)

\* the kinds of the logs the record holds
StoredKinds(j) == {j.logs[i].kind : i \in 1..Len(j.logs)}

\* C38: whenever the job is completed, in the record or in a report, its
\* logs are all the logs the processor emitted for the job, and they never
\* change afterwards; before that the set of stored kinds only grows.
C38_LogsCompleteAtCompletion ==
  /\ [](IsSome(job.outcome) =>
         /\ {job.logs[i] : i \in 1..Len(job.logs)}
              = {EmittedLogs[i] : i \in 1..Len(EmittedLogs)}
         /\ Len(job.logs) = Len(EmittedLogs))
  /\ [](resp.completed =>
         resp.logs = {EmittedLogs[i].kind : i \in 1..Len(EmittedLogs)})
  /\ [][/\ IsSome(job.outcome) => (job'.logs = job.logs /\ emitted' = emitted)
        /\ StoredKinds(job) \subseteq StoredKinds(job')
        /\ resp.logs \subseteq resp'.logs]_<<vars, rvars>>

\* a job that ended in Success with one log per kind was reported completed
C38_Witness ==
  /\ job.outcome = Some(Success)
  /\ resp.completed
  /\ resp.logs = Kinds
  /\ \E i \in 1..Len(job.logs) : job.logs[i].tests # <<>>

----------------------------------------------------------------------------
(* Failed lookups and the cache                                            *)

\* call f returned Ok(None), or the error of a registry
SearchFailed(f) ==
  \/ ResultOf(f) = <<"None">>
  \/ \E r \in 1..Len(Registries) : ResultOf(f) = SearchError(NameOf(f), r)

\* some call resolved the problem `name` and returned before position p
ResolvedBefore(name, p) ==
  \E h \in Fids :
    /\ PosOf("call", h) # 0 /\ NameOf(h) = name
    /\ Resolved(h) /\ PosOf("return", h) < p

\* the steps of call f, in their order
StepsOf(f) ==
  LET RECURSIVE Pick(_)
      Pick(t) == IF t = <<>> THEN <<>>
                 ELSE (IF Head(t).fid = f THEN <<Head(t)>> ELSE <<>>) \o Pick(Tail(t))
  IN Pick(ltrace)

\* the error of lines 78-83
PrepareError == <<"Err", "failed to prepare problem assets directory">>

\* C39: a find in which no registry resolves the problem, or in which a
\* registry fails, leaves no cache entry for the problem: as long as no find
\* has resolved it the cache holds nothing for it, and a later find of it
\* (with no resolving find in between) does not return from the cache: after
\* taking the lock it removes the assets directory, creates it again and,
\* unless the creation fails, consults the registries from the first one.
C39_FailedLookupNotCached ==
  \A f \in Fids :
    SearchFailed(f) =>
      /\ ~ResolvedBefore(NameOf(f), Len(ltrace) + 1) => cache[NameOf(f)] = None
      /\ \A g \in Fids :
           LET l == PosOf("lock", g)
               steps == StepsOf(g)
           IN
           (/\ l # 0 /\ NameOf(g) = NameOf(f)
            /\ PosOf("return", f) < l
            /\ ~ResolvedBefore(NameOf(f), l)) =>
             /\ steps[2].op = "lock"
             /\ Len(steps) >= 3 => steps[3] = LOp("remove_dir", g, NameOf(g), 0, <<>>)
             /\ Len(steps) >= 4 => steps[4] = LOp("create_dir", g, NameOf(g), 0, <<>>)
             /\ Len(steps) >= 5 =>
                  \/ steps[5] = LOp("return", g, NameOf(g), 0, PrepareError)
                  \/ steps[5].op = "get_problem" /\ steps[5].reg = 1
             /\ (ResultOf(g) # <<>> /\ ResultOf(g) # PrepareError) =>
                  Consults(g, 1) # {}

\* a find failed at the second registry, and a later find of the same problem
\* removed and recreated the directory and resolved it at the first registry
C39_Witness ==
  \E f, g \in Fids :
    /\ ResultOf(f) = SearchError(NameOf(f), 2)
    /\ NameOf(g) = NameOf(f)
    /\ PosOf("lock", g) # 0 /\ PosOf("return", f) < PosOf("lock", g)
    /\ PosOf("remove_dir", g) = PosOf("lock", g) + 1
    /\ PosOf("create_dir", g) = PosOf("lock", g) + 2
    /\ Consults(g, 1) # {}
    /\ Resolved(g)

----------------------------------------------------------------------------
(* The time-limit test over the range of u64                               *)

\* the time-limit test was called and has ended
TimeTested == input.fn = "time_limit_test" /\ IsSome(output)

\* cpu_time > limits.time * 1_000_000 over the integers
ExceedsExactly(usage, time) ==
  gt_bytes(usage \o to_le_bytes(0), mul_exact(time, to_le_bytes(NsPerMs)))

\* C40: the classifier's time-limit test equals the comparison
\* cpu_time > limits.time * 1_000_000 over the integers for every 64-bit
\* unsigned limits.time and cpu_time: the product does not wrap around and the
\* test does not panic.
C40_TimeTestExact ==
  TimeTested =>
    /\ ~mul_u64(input.arg.time_bytes, to_le_bytes(NsPerMs)).overflow
    /\ Unwrap(output) # "panic"
    /\ Unwrap(output) = "yes"
         <=> ExceedsExactly(input.arg.cpu_time_bytes, input.arg.time_bytes)

====
